---- MODULE Spec2Model ----
(***************************************************************************)
(* go-script: a tree-walking interpreter for a small JavaScript-like       *)
(* language.  The model follows the pipeline of the repository:            *)
(*   lexer.NextToken -> parser.ParseProgram -> evaluator.Eval              *)
(* with the scope chain of evaluator.Environment kept in an explicit heap. *)
(*                                                                         *)
(* Source text is a sequence of bytes (one-character strings); a token     *)
(* literal is the sub-sequence of the input the lexer cut out.             *)
(***************************************************************************)
EXTENDS Integers, Sequences, FiniteSets, TLC

(***************************************************************************)
(* Bounds of the model (not program constants).                            *)
(***************************************************************************)
\* top-level statements evaluated by one run of evalProgram
MaxStmts == 5
\* loop iterations plus closure calls one top-level statement may spend
MaxFuel == 6

\* the largest number of operators of an arithmetic expression given to runCode
MaxOperators == 3

\* the longest text given to the scanner on its own
MaxInput == 3

\* the longest text of words the parser is run on, in words
MaxWords == 3

(***************************************************************************)
(* token: token types are the strings of token.go.                         *)
(***************************************************************************)
EOF == "EOF"
ILLEGAL == "ILLEGAL"
IDENT == "IDENT"
NUMBER == "NUMBER"
STRING_ == "STRING"
ASSIGN == "="
PLUS == "+"
MINUS == "-"
STAR == "*"
SLASH == "/"
BANG == "!"
DOT == "."
EQ == "=="
NEQ == "!="
LT == "<"
GT == ">"
LTE == "<="
GTE == ">="
LPAREN == "("
RPAREN == ")"
LBRACE == "{"
RBRACE == "}"
COMMA == ","
SEMICOLON == ";"
COLON == ":"
VAR == "var"
LET_ == "let"
FUNC == "function"
IF_ == "if"
ELSE_ == "else"
WHILE == "while"
RETURN == "return"
TRUE_ == "true"
FALSE_ == "false"

Token(type, literal) == [Type |-> type, Literal |-> literal]

\* the keyword table: literal -> token type
keywords ==
    <<"v", "a", "r">> :> VAR
    @@ <<"l", "e", "t">> :> LET_
    @@ <<"f", "u", "n", "c", "t", "i", "o", "n">> :> FUNC
    @@ <<"i", "f">> :> IF_
    @@ <<"e", "l", "s", "e">> :> ELSE_
    @@ <<"w", "h", "i", "l", "e">> :> WHILE
    @@ <<"r", "e", "t", "u", "r", "n">> :> RETURN
    @@ <<"t", "r", "u", "e">> :> TRUE_
    @@ <<"f", "a", "l", "s", "e">> :> FALSE_

LookupIdent(ident) ==
    IF ident \in DOMAIN keywords THEN keywords[ident] ELSE IDENT

(***************************************************************************)
(* lexer: the state is the struct Lexer {input, position, ch}; the byte 0  *)
(* that readChar stores at the end of the input is NUL.                    *)
(***************************************************************************)
NUL == ""

Letters ==
    {"a", "b", "c", "d", "e", "f", "g", "h", "i", "j", "k", "l", "m",
     "n", "o", "p", "q", "r", "s", "t", "u", "v", "w", "x", "y", "z",
     "A", "B", "C", "D", "E", "F", "G", "H", "I", "J", "K", "L", "M",
     "N", "O", "P", "Q", "R", "S", "T", "U", "V", "W", "X", "Y", "Z"}

Digits == {"0", "1", "2", "3", "4", "5", "6", "7", "8", "9"}

isLetter(ch) == ch \in Letters \/ ch = "_"

isDigit(ch) == ch \in Digits

newToken(tokenType, ch) == Token(tokenType, <<ch>>)

readChar(l) ==
    [l EXCEPT !.ch = IF l.position >= Len(l.input)
                     THEN NUL
                     ELSE l.input[l.position + 1],
              !.position = l.position + 1]

peekChar(l) ==
    IF l.position >= Len(l.input) THEN NUL ELSE l.input[l.position + 1]

NewLexer(input) == readChar([input |-> input, position |-> 0, ch |-> NUL])

\* input[lo : hi] of Go, on the 1-based sequence
Slice(input, lo, hi) == SubSeq(input, lo + 1, hi)

RECURSIVE skipWhitespace(_)
skipWhitespace(l) ==
    IF l.ch \in {" ", "\t", "\n", "\r"} THEN skipWhitespace(readChar(l)) ELSE l

RECURSIVE skipComment(_)
skipComment(l) ==
    IF l.ch # "\n" /\ l.ch # NUL THEN skipComment(readChar(l)) ELSE l

\* readIdentifier, readNumber, readString return [lit, l]: the literal and
\* the lexer after the read
RECURSIVE readIdentifierLoop(_)
readIdentifierLoop(l) ==
    IF isLetter(l.ch) \/ isDigit(l.ch) THEN readIdentifierLoop(readChar(l)) ELSE l

readIdentifier(l) ==
    LET startPos == l.position - 1
        l2 == readIdentifierLoop(l)
    IN  [lit |-> Slice(l2.input, startPos, l2.position - 1), l |-> l2]

RECURSIVE readNumberLoop(_)
readNumberLoop(l) ==
    IF isDigit(l.ch) \/ l.ch = "." THEN readNumberLoop(readChar(l)) ELSE l

readNumber(l) ==
    LET startPos == l.position - 1
        l2 == readNumberLoop(l)
    IN  [lit |-> Slice(l2.input, startPos, l2.position - 1), l |-> l2]

RECURSIVE readStringLoop(_)
readStringLoop(l) ==
    LET l2 == readChar(l)
    IN  IF l2.ch = "\"" \/ l2.ch = NUL THEN l2 ELSE readStringLoop(l2)

readString(l) ==
    LET startPos == l.position
        l2 == readStringLoop(l)
    IN  [lit |-> Slice(l2.input, startPos, l2.position - 1), l |-> l2]

\* the one-byte operators and delimiters of NextToken's switch
SingleCharTokens ==
    "+" :> PLUS @@ "-" :> MINUS @@ "*" :> STAR @@ "(" :> LPAREN
    @@ ")" :> RPAREN @@ "{" :> LBRACE @@ "}" :> RBRACE @@ "," :> COMMA
    @@ ";" :> SEMICOLON @@ ":" :> COLON @@ "." :> DOT

\* the bytes that start a two-byte operator when followed by '='
TwoCharTokens ==
    "=" :> <<EQ, ASSIGN>> @@ "!" :> <<NEQ, BANG>>
    @@ "<" :> <<LTE, LT>> @@ ">" :> <<GTE, GT>>

\* NextToken returns [tok, l]: the token and the lexer after the call
RECURSIVE NextToken(_)
NextToken(l0) ==
    LET l == skipWhitespace(l0)
    IN  CASE l.ch = NUL ->
               [tok |-> Token(EOF, << >>), l |-> readChar(l)]
          [] l.ch \in DOMAIN TwoCharTokens ->
               IF peekChar(l) = "="
               THEN LET l2 == readChar(l)
                    IN  [tok |-> Token(TwoCharTokens[l.ch][1], <<l.ch, l2.ch>>),
                         l |-> readChar(l2)]
               ELSE [tok |-> newToken(TwoCharTokens[l.ch][2], l.ch),
                     l |-> readChar(l)]
          [] l.ch = "/" ->
               IF peekChar(l) = "/"
               THEN NextToken(skipComment(l))
               ELSE [tok |-> newToken(SLASH, l.ch), l |-> readChar(l)]
          [] l.ch \in DOMAIN SingleCharTokens ->
               [tok |-> newToken(SingleCharTokens[l.ch], l.ch), l |-> readChar(l)]
          [] l.ch = "\"" ->
               LET r == readString(l)
               IN  [tok |-> Token(STRING_, r.lit), l |-> readChar(r.l)]
          [] OTHER ->
               IF isLetter(l.ch)
               THEN LET r == readIdentifier(l)
                    IN  [tok |-> Token(LookupIdent(r.lit), r.lit), l |-> r.l]
               ELSE IF isDigit(l.ch)
               THEN LET r == readNumber(l)
                    IN  [tok |-> Token(NUMBER, r.lit), l |-> r.l]
               ELSE [tok |-> newToken(ILLEGAL, l.ch), l |-> readChar(l)]

(***************************************************************************)
(* Runtime numbers.  float64 is modelled by exact rationals n/d in lowest  *)
(* terms with d > 0.                                                       *)
(***************************************************************************)
Abs(n) == IF n < 0 THEN -n ELSE n

RECURSIVE GCD(_, _)
GCD(a, b) == IF b = 0 THEN a ELSE GCD(b, a % b)

Num(n, d) ==
    LET g == GCD(Abs(n), Abs(d))
        sg == IF d < 0 THEN -1 ELSE 1
    IN  [t |-> "num", n |-> (sg * n) \div g, d |-> (sg * d) \div g]

Float(n) == Num(n, 1)

(***************************************************************************)
(* ast: a node is a record tagged by its Go type.  NilNode is the nil      *)
(* interface; NilPtr(type) is a nil pointer of a statement type stored in  *)
(* an interface (what "return nil" of parseVarStatement, parseIfStatement  *)
(* and parseWhileStatement becomes at the caller: it is not == nil).       *)
(***************************************************************************)
NilNode == [type |-> "nil"]

NilPtr(type) == [type |-> "nilptr", of |-> type]

(***************************************************************************)
(* parser: the state is the struct Parser {l, currentToken, peekToken,     *)
(* errors}; every parse function returns [node, p].                        *)
(***************************************************************************)
LOWEST == 1
ASSIGN_PREC == 2
EQUALS == 3
LESSGREATER == 4
SUM == 5
PRODUCT == 6
PREFIX == 7
CALL == 8

\* faulty precedences: * and / at the level of + and -
flatPrecedences ==
    EQ :> EQUALS @@ NEQ :> EQUALS @@ LT :> LESSGREATER @@ GT :> LESSGREATER
    @@ LTE :> LESSGREATER @@ GTE :> LESSGREATER @@ PLUS :> SUM @@ MINUS :> SUM
    @@ STAR :> SUM @@ SLASH :> SUM @@ LPAREN :> CALL @@ DOT :> CALL
    @@ ASSIGN :> ASSIGN_PREC

precedences ==
    ASSIGN :> ASSIGN_PREC
    @@ EQ :> EQUALS @@ NEQ :> EQUALS
    @@ LT :> LESSGREATER @@ GT :> LESSGREATER
    @@ LTE :> LESSGREATER @@ GTE :> LESSGREATER
    @@ PLUS :> SUM @@ MINUS :> SUM
    @@ SLASH :> PRODUCT @@ STAR :> PRODUCT
    @@ LPAREN :> CALL @@ DOT :> CALL

getPrecedence(t) == IF t \in DOMAIN precedences THEN precedences[t] ELSE LOWEST

nextTokenFrom(p, r) ==
    [p EXCEPT !.currentToken = p.peekToken, !.peekToken = r.tok, !.l = r.l]

nextToken(p) == nextTokenFrom(p, NextToken(p.l))

\* parser.New: the zero Parser, then two nextToken calls
NewParser(input) ==
    nextToken(nextToken([l |-> NewLexer(input),
                         currentToken |-> Token("", << >>),
                         peekToken |-> Token("", << >>),
                         errors |-> << >>]))

currentTokenIs(p, t) == p.currentToken.Type = t

peekTokenIs(p, t) == p.peekToken.Type = t

addError(p, msg) == [p EXCEPT !.errors = Append(@, msg)]

\* expectPeek returns [ok, p]
expectPeek(p, t) ==
    IF peekTokenIs(p, t)
    THEN [ok |-> TRUE, p |-> nextToken(p)]
    ELSE [ok |-> FALSE,
          p |-> addError(p, <<"expected next token to be", t, "got", p.peekToken.Type>>)]

\* faulty noPrefixParseFnError: no message is appended
noDiagnostic(p, t) == p

noPrefixParseFnError(p, t) == addError(p, <<"no prefix parse function for", t>>)

DigitValue ==
    "0" :> 0 @@ "1" :> 1 @@ "2" :> 2 @@ "3" :> 3 @@ "4" :> 4
    @@ "5" :> 5 @@ "6" :> 6 @@ "7" :> 7 @@ "8" :> 8 @@ "9" :> 9

RECURSIVE Pow10(_)
Pow10(k) == IF k = 0 THEN 1 ELSE 10 * Pow10(k - 1)

RECURSIVE DigitsValue(_)
DigitsValue(ds) ==
    IF ds = << >> THEN 0
    ELSE 10 * DigitsValue(SubSeq(ds, 1, Len(ds) - 1)) + DigitValue[ds[Len(ds)]]

\* strconv.ParseFloat on what readNumber can produce (digits and '.', first
\* a digit): [ok, val].  More than one '.' is a syntax error.
ParseFloat(lit) ==
    LET dots == {i \in 1..Len(lit) : lit[i] = "."}
    IN  IF Cardinality(dots) > 1 \/ lit = << >>
        THEN [ok |-> FALSE, val |-> Float(0)]
        ELSE IF dots = {}
        THEN [ok |-> TRUE, val |-> Float(DigitsValue(lit))]
        ELSE LET i == CHOOSE j \in dots : TRUE
                 whole == SubSeq(lit, 1, i - 1)
                 frac == SubSeq(lit, i + 1, Len(lit))
             IN  [ok |-> TRUE,
                  val |-> Num(DigitsValue(whole) * Pow10(Len(frac)) + DigitsValue(frac),
                              Pow10(Len(frac)))]

parseIdentifier(p) ==
    [node |-> [type |-> "Identifier", Name |-> p.currentToken.Literal], p |-> p]

parseNumberLiteral(p) ==
    LET f == ParseFloat(p.currentToken.Literal)
    IN  IF ~f.ok
        THEN [node |-> NilNode,
              p |-> addError(p, <<"could not parse as number", p.currentToken.Literal>>)]
        ELSE [node |-> [type |-> "NumberLiteral", Value |-> f.val], p |-> p]

parseStringLiteral(p) ==
    [node |-> [type |-> "StringLiteral", Value |-> p.currentToken.Literal], p |-> p]

parseBooleanLiteral(p) ==
    [node |-> [type |-> "BooleanLiteral", Value |-> currentTokenIs(p, TRUE_)], p |-> p]

InfixTokens == {PLUS, MINUS, STAR, SLASH, EQ, NEQ, LT, GT, LTE, GTE}

\* With(v, K) is K(v): the value v is computed once and named in K
With(v, K(_)) == K(v)

RECURSIVE parseStatement(_), parseBlockStatement(_), parseBlockLoop(_, _),
          parseIfStatement(_), parseExpression(_, _), parseInfixLoop(_, _, _),
          parseCallArgumentsLoop(_, _), parseObjectLoop(_, _)

parseVarStatement(p) ==
    With(expectPeek(p, IDENT), LAMBDA e :
      IF ~e.ok THEN [node |-> NilPtr("VarStatement"), p |-> e.p]
      ELSE With(IF peekTokenIs(e.p, ASSIGN)
                THEN parseExpression(nextToken(nextToken(e.p)), LOWEST)
                ELSE [node |-> NilNode, p |-> e.p], LAMBDA v :
             [node |-> [type |-> "VarStatement", Name |-> e.p.currentToken.Literal,
                        Value |-> v.node],
              p |-> IF peekTokenIs(v.p, SEMICOLON) THEN nextToken(v.p) ELSE v.p]))

parseReturnStatement(p) ==
    With(parseExpression(nextToken(p), LOWEST), LAMBDA v :
      [node |-> [type |-> "ReturnStatement", Value |-> v.node],
       p |-> IF peekTokenIs(v.p, SEMICOLON) THEN nextToken(v.p) ELSE v.p])

\* the else part of parseIfStatement: [node, p]
parseAlternative(p) ==
    IF ~peekTokenIs(p, ELSE_) THEN [node |-> NilNode, p |-> p]
    ELSE With(nextToken(nextToken(p)), LAMBDA p4 :
           IF currentTokenIs(p4, IF_) THEN parseIfStatement(p4)
           ELSE IF currentTokenIs(p4, LBRACE) THEN parseBlockStatement(p4)
           ELSE [node |-> NilNode, p |-> p4])

parseIfStatement(p) ==
    With(expectPeek(p, LPAREN), LAMBDA e1 :
      IF ~e1.ok THEN [node |-> NilPtr("IfStatement"), p |-> e1.p]
      ELSE
      With(parseExpression(nextToken(e1.p), LOWEST), LAMBDA c :
      With(expectPeek(c.p, RPAREN), LAMBDA e2 :
        IF ~e2.ok THEN [node |-> NilPtr("IfStatement"), p |-> e2.p]
        ELSE
        With(expectPeek(e2.p, LBRACE), LAMBDA e3 :
          IF ~e3.ok THEN [node |-> NilPtr("IfStatement"), p |-> e3.p]
          ELSE
          With(parseBlockStatement(e3.p), LAMBDA b :
          With(parseAlternative(b.p), LAMBDA alt :
            [node |-> [type |-> "IfStatement", Condition |-> c.node,
                       Consequence |-> b.node, Alternative |-> alt.node],
             p |-> alt.p]))))))

parseWhileStatement(p) ==
    With(expectPeek(p, LPAREN), LAMBDA e1 :
      IF ~e1.ok THEN [node |-> NilPtr("WhileStatement"), p |-> e1.p]
      ELSE
      With(parseExpression(nextToken(e1.p), LOWEST), LAMBDA c :
      With(expectPeek(c.p, RPAREN), LAMBDA e2 :
        IF ~e2.ok THEN [node |-> NilPtr("WhileStatement"), p |-> e2.p]
        ELSE
        With(expectPeek(e2.p, LBRACE), LAMBDA e3 :
          IF ~e3.ok THEN [node |-> NilPtr("WhileStatement"), p |-> e3.p]
          ELSE
          With(parseBlockStatement(e3.p), LAMBDA b :
            [node |-> [type |-> "WhileStatement", Condition |-> c.node,
                       Body |-> b.node],
             p |-> b.p])))))

\* the statement loop of parseBlockStatement
parseBlockLoop(p, stmts) ==
    IF ~currentTokenIs(p, RBRACE) /\ ~currentTokenIs(p, EOF)
    THEN With(parseStatement(p), LAMBDA r :
           parseBlockLoop(nextToken(r.p),
                          IF r.node # NilNode THEN Append(stmts, r.node) ELSE stmts))
    ELSE [node |-> [type |-> "BlockStatement", Statements |-> stmts], p |-> p]

parseBlockStatement(p) == parseBlockLoop(nextToken(p), << >>)

parseExpressionStatement(p) ==
    With(parseExpression(p, LOWEST), LAMBDA v :
      [node |-> [type |-> "ExpressionStatement", Expression |-> v.node],
       p |-> IF peekTokenIs(v.p, SEMICOLON) THEN nextToken(v.p) ELSE v.p])

parseStatement(p) ==
    CASE p.currentToken.Type \in {VAR, LET_} -> parseVarStatement(p)
      [] p.currentToken.Type = RETURN -> parseReturnStatement(p)
      [] p.currentToken.Type = IF_ -> parseIfStatement(p)
      [] p.currentToken.Type = WHILE -> parseWhileStatement(p)
      [] p.currentToken.Type = LBRACE -> parseBlockStatement(p)
      [] OTHER -> parseExpressionStatement(p)

parsePrefixExpression(p) ==
    With(parseExpression(nextToken(p), PREFIX), LAMBDA r :
      [node |-> [type |-> "PrefixExpression", Operator |-> p.currentToken.Literal,
                 Right |-> r.node],
       p |-> r.p])

\* faulty parseInfixExpression: the right operand is parsed one level lower,
\* so that operators of one level group from the right
parseInfixExpressionRight(p, left) ==
    With(parseExpression(nextToken(p), getPrecedence(p.currentToken.Type) - 1),
         LAMBDA r :
      [node |-> [type |-> "InfixExpression", Operator |-> p.currentToken.Literal,
                 Left |-> left, Right |-> r.node],
       p |-> r.p])

parseInfixExpression(p, left) ==
    With(parseExpression(nextToken(p), getPrecedence(p.currentToken.Type)), LAMBDA r :
      [node |-> [type |-> "InfixExpression", Operator |-> p.currentToken.Literal,
                 Left |-> left, Right |-> r.node],
       p |-> r.p])

parseGroupedExpression(p) ==
    With(parseExpression(nextToken(p), LOWEST), LAMBDA r :
    With(expectPeek(r.p, RPAREN), LAMBDA e :
      IF ~e.ok THEN [node |-> NilNode, p |-> e.p] ELSE [node |-> r.node, p |-> e.p]))

RECURSIVE parseFunctionParametersLoop(_, _)
parseFunctionParametersLoop(p, identifiers) ==
    IF peekTokenIs(p, COMMA)
    THEN With(nextToken(nextToken(p)), LAMBDA p2 :
           parseFunctionParametersLoop(p2, Append(identifiers, p2.currentToken.Literal)))
    ELSE [ids |-> identifiers, p |-> p]

\* parseFunctionParameters returns [ids, p]; a nil slice is the empty sequence
parseFunctionParameters(p) ==
    IF peekTokenIs(p, RPAREN) THEN [ids |-> << >>, p |-> nextToken(p)]
    ELSE With(nextToken(p), LAMBDA p1 :
         With(parseFunctionParametersLoop(p1, <<p1.currentToken.Literal>>), LAMBDA r :
         With(expectPeek(r.p, RPAREN), LAMBDA e :
           IF ~e.ok THEN [ids |-> << >>, p |-> e.p] ELSE [ids |-> r.ids, p |-> e.p])))

parseFunctionLiteral(p) ==
    With(expectPeek(p, LPAREN), LAMBDA e1 :
      IF ~e1.ok THEN [node |-> NilNode, p |-> e1.p]
      ELSE
      With(parseFunctionParameters(e1.p), LAMBDA ps :
      With(expectPeek(ps.p, LBRACE), LAMBDA e2 :
        IF ~e2.ok THEN [node |-> NilNode, p |-> e2.p]
        ELSE
        With(parseBlockStatement(e2.p), LAMBDA b :
          [node |-> [type |-> "FunctionLiteral", Parameters |-> ps.ids,
                     Body |-> b.node],
           p |-> b.p]))))

parseCallArgumentsLoop(p, args) ==
    IF peekTokenIs(p, COMMA)
    THEN With(parseExpression(nextToken(nextToken(p)), LOWEST), LAMBDA r :
           parseCallArgumentsLoop(r.p, Append(args, r.node)))
    ELSE [args |-> args, p |-> p]

\* parseCallArguments returns [args, p]
parseCallArguments(p) ==
    IF peekTokenIs(p, RPAREN) THEN [args |-> << >>, p |-> nextToken(p)]
    ELSE With(parseExpression(nextToken(p), LOWEST), LAMBDA first :
         With(parseCallArgumentsLoop(first.p, <<first.node>>), LAMBDA r :
         With(expectPeek(r.p, RPAREN), LAMBDA e :
           IF ~e.ok THEN [args |-> << >>, p |-> e.p] ELSE [args |-> r.args, p |-> e.p])))

parseCallExpression(p, function) ==
    With(parseCallArguments(p), LAMBDA a :
      [node |-> [type |-> "CallExpression", Function |-> function,
                 Arguments |-> a.args],
       p |-> a.p])

\* the property loop of parseObjectLiteral; pairs is the map key -> node
parseObjectLoop(p, pairs) ==
    IF ~currentTokenIs(p, RBRACE) /\ ~currentTokenIs(p, EOF)
    THEN IF ~(currentTokenIs(p, IDENT) \/ currentTokenIs(p, STRING_))
         THEN [node |-> NilNode, p |-> p]
         ELSE
         With(expectPeek(p, COLON), LAMBDA e :
           IF ~e.ok THEN [node |-> NilNode, p |-> e.p]
           ELSE
           With(parseExpression(nextToken(e.p), LOWEST), LAMBDA v :
           With((p.currentToken.Literal :> v.node) @@ pairs, LAMBDA pairs2 :
             IF peekTokenIs(v.p, COMMA)
             THEN parseObjectLoop(nextToken(nextToken(v.p)), pairs2)
             ELSE IF peekTokenIs(v.p, RBRACE)
             THEN [node |-> [type |-> "ObjectLiteral", Pairs |-> pairs2],
                   p |-> nextToken(v.p)]
             ELSE parseObjectLoop(v.p, pairs2))))
    ELSE [node |-> [type |-> "ObjectLiteral", Pairs |-> pairs], p |-> p]

parseObjectLiteral(p) == parseObjectLoop(nextToken(p), << >>)

parsePropertyAccess(p, object) ==
    With(expectPeek(p, IDENT), LAMBDA e :
      IF ~e.ok THEN [node |-> NilNode, p |-> e.p]
      ELSE [node |-> [type |-> "PropertyAccess", Object |-> object,
                      Property |-> e.p.currentToken.Literal],
            p |-> e.p])

\* faulty parseAssignExpression: a target that is no identifier is dropped
\* without a message
parseAssignExpressionSilent(p, left) ==
    IF left.type # "Identifier"
    THEN [node |-> NilNode, p |-> p]
    ELSE With(parseExpression(nextToken(p), LOWEST), LAMBDA v :
           [node |-> [type |-> "AssignExpression", Name |-> left.Name,
                      Value |-> v.node],
            p |-> v.p])

parseAssignExpression(p, left) ==
    IF left.type # "Identifier"
    THEN [node |-> NilNode, p |-> addError(p, <<"invalid assignment target">>)]
    ELSE With(parseExpression(nextToken(p), LOWEST), LAMBDA v :
           [node |-> [type |-> "AssignExpression", Name |-> left.Name,
                      Value |-> v.node],
            p |-> v.p])

\* the infix loop of parseExpression
parseInfixLoop(p, leftExp, precedence) ==
    IF ~peekTokenIs(p, SEMICOLON) /\ precedence < getPrecedence(p.peekToken.Type)
    THEN IF p.peekToken.Type \notin InfixTokens \cup {LPAREN, DOT, ASSIGN}
         THEN [node |-> leftExp, p |-> p]
         ELSE
         With(CASE p.peekToken.Type \in InfixTokens ->
                     parseInfixExpression(nextToken(p), leftExp)
                [] p.peekToken.Type = LPAREN ->
                     parseCallExpression(nextToken(p), leftExp)
                [] p.peekToken.Type = DOT ->
                     parsePropertyAccess(nextToken(p), leftExp)
                [] p.peekToken.Type = ASSIGN ->
                     parseAssignExpression(nextToken(p), leftExp), LAMBDA r :
           parseInfixLoop(r.p, r.node, precedence))
    ELSE [node |-> leftExp, p |-> p]

\* the prefix parse functions of parseExpression
PrefixTokens ==
    {IDENT, NUMBER, STRING_, TRUE_, FALSE_, BANG, MINUS, LPAREN, FUNC, LBRACE}

parseExpression(p, precedence) ==
    IF p.currentToken.Type \notin PrefixTokens
    THEN [node |-> NilNode, p |-> noPrefixParseFnError(p, p.currentToken.Type)]
    ELSE
    With(CASE p.currentToken.Type = IDENT -> parseIdentifier(p)
           [] p.currentToken.Type = NUMBER -> parseNumberLiteral(p)
           [] p.currentToken.Type = STRING_ -> parseStringLiteral(p)
           [] p.currentToken.Type \in {TRUE_, FALSE_} -> parseBooleanLiteral(p)
           [] p.currentToken.Type \in {BANG, MINUS} -> parsePrefixExpression(p)
           [] p.currentToken.Type = LPAREN -> parseGroupedExpression(p)
           [] p.currentToken.Type = FUNC -> parseFunctionLiteral(p)
           [] p.currentToken.Type = LBRACE -> parseObjectLiteral(p), LAMBDA left :
      parseInfixLoop(left.p, left.node, precedence))

RECURSIVE ParseProgramLoop(_, _)
ParseProgramLoop(p, stmts) ==
    IF ~currentTokenIs(p, EOF)
    THEN With(parseStatement(p), LAMBDA r :
           ParseProgramLoop(nextToken(r.p),
                            IF r.node # NilNode THEN Append(stmts, r.node) ELSE stmts))
    ELSE [node |-> [type |-> "Program", Statements |-> stmts], p |-> p]

\* ParseProgram returns [node, p]; Errors() is p.errors
ParseProgram(p) == ParseProgramLoop(p, << >>)

Errors(p) == p.errors

(***************************************************************************)
(* Source texts.  A text is written as a sequence of words; Text joins the *)
(* words with single spaces into the byte sequence handed to the lexer.    *)
(* A word is one byte, or one of the spelled-out words below.              *)
(***************************************************************************)
Spelled ==
    "var" :> <<"v", "a", "r">>
    @@ "let" :> <<"l", "e", "t">>
    @@ "function" :> <<"f", "u", "n", "c", "t", "i", "o", "n">>
    @@ "if" :> <<"i", "f">>
    @@ "else" :> <<"e", "l", "s", "e">>
    @@ "while" :> <<"w", "h", "i", "l", "e">>
    @@ "return" :> <<"r", "e", "t", "u", "r", "n">>
    @@ "true" :> <<"t", "r", "u", "e">>
    @@ "false" :> <<"f", "a", "l", "s", "e">>
    @@ "print" :> <<"p", "r", "i", "n", "t">>
    @@ "==" :> <<"=", "=">>
    @@ "!=" :> <<"!", "=">>
    @@ "<=" :> <<"<", "=">>
    @@ ">=" :> <<">", "=">>
    @@ "10" :> <<"1", "0">>

Word(w) == IF w \in DOMAIN Spelled THEN Spelled[w] ELSE <<w>>

RECURSIVE Text(_)
Text(words) ==
    IF words = << >> THEN << >>
    ELSE IF Len(words) = 1 THEN Word(words[1])
    ELSE Word(words[1]) \o <<" ">> \o Text(Tail(words))

(***************************************************************************)
(* Runtime values (internal.Value): one record shape per dynamic type.     *)
(*   nil | float64 (Num) | bool | string | Object | *Function | *Builtin   *)
(*   | *ReturnValue | *ArrayReference                                      *)
(*   | map[string]interface{} | []interface{}                              *)
(* The last two are what the native functions build: they are not the      *)
(* types Object and Array, so no type assertion of the evaluator matches.  *)
(* Objects cannot be mutated by any script (there is no property           *)
(* assignment), so an Object is modelled by its key -> value map.          *)
(***************************************************************************)
Nil == [t |-> "nil"]

Bool(b) == [t |-> "bool", b |-> b]

Str(s) == [t |-> "str", s |-> s]

Object(fields) == [t |-> "obj", fields |-> fields]

Function(parameters, body, env) ==
    [t |-> "fn", Parameters |-> parameters, Body |-> body, Env |-> env]

Builtin(name) == [t |-> "builtin", Name |-> name]

\* a *ArrayReference: the address of the ArrayReference in the heap
Array(ref) == [t |-> "array", ref |-> ref]

\* a map[string]interface{} built by a native function
NativeMap(fields) == [t |-> "map", fields |-> fields]

\* a []interface{} built by a native function
NativeSlice(elems) == [t |-> "slice", elems |-> elems]

ReturnValue(v) == [t |-> "return", Value |-> v]

IsReturnValue(v) == v.t = "return"

NumAdd(a, b) == Num(a.n * b.d + b.n * a.d, a.d * b.d)

NumSub(a, b) == Num(a.n * b.d - b.n * a.d, a.d * b.d)

NumMul(a, b) == Num(a.n * b.n, a.d * b.d)

\* a / b for b # 0
NumDiv(a, b) == Num(a.n * b.d, a.d * b.n)

NumNeg(a) == Num(-a.n, a.d)

NumLess(a, b) == a.n * b.d < b.n * a.d

(***************************************************************************)
(* Environment.  The heap is the sequence of all Environment structs; an   *)
(* *Environment is an index into it and 0 is the nil pointer.  A store is  *)
(* the map name -> value.  The ArrayReference structs live in the same     *)
(* heap: a cell [Elements |-> the slice] addressed by its index.           *)
(***************************************************************************)
NoEnv == 0

\* New(outer): the heap with the new Environment appended; NewEnv is its pointer
New(heap, outer) == Append(heap, [store |-> << >>, outer |-> outer])

\* faulty New: one Environment serves every call and every block, the pointer
\* returned is that of the first one made
NewEnvReused(heap) == IF Len(heap) >= 2 THEN 2 ELSE Len(heap) + 1

NewEnv(heap) == Len(heap) + 1

\* Get returns [val, ok]
RECURSIVE Get(_, _, _)
Get(heap, e, name) ==
    IF name \notin DOMAIN heap[e].store /\ heap[e].outer # NoEnv
    THEN Get(heap, heap[e].outer, name)
    ELSE IF name \in DOMAIN heap[e].store
    THEN [val |-> heap[e].store[name], ok |-> TRUE]
    ELSE [val |-> Nil, ok |-> FALSE]

\* the nearest Environment of the chain of e whose store binds name, or NoEnv
RECURSIVE Binder(_, _, _)
Binder(heap, e, name) ==
    IF e = NoEnv THEN NoEnv
    ELSE IF name \in DOMAIN heap[e].store THEN e
    ELSE Binder(heap, heap[e].outer, name)

\* the Environment at the end of the chain of e
RECURSIVE Outermost(_, _)
Outermost(heap, e) ==
    IF heap[e].outer = NoEnv THEN e ELSE Outermost(heap, heap[e].outer)

\* faulty Set: a declaration that overwrites the binding of the parent scope
SetInOuter(heap, e, name, val) ==
    IF heap[e].outer # NoEnv /\ name \in DOMAIN heap[heap[e].outer].store
    THEN [heap EXCEPT ![heap[e].outer].store = (name :> val) @@ @]
    ELSE [heap EXCEPT ![e].store = (name :> val) @@ @]

\* faulty Update: an assignment that always writes the current scope
UpdateCurrentScope(heap, e, name, val) ==
    [heap EXCEPT ![e].store = (name :> val) @@ @]

\* faulty Update: an assignment to an unbound name creates a global
UpdateOutermost(heap, e, name, val) ==
    LET b == Binder(heap, e, name)
        target == IF b # NoEnv THEN b ELSE Outermost(heap, e)
    IN  [heap EXCEPT ![target].store = (name :> val) @@ @]

\* Set and Update return the heap after the call
Set(heap, e, name, val) == [heap EXCEPT ![e].store = (name :> val) @@ @]

RECURSIVE Update(_, _, _, _)
Update(heap, e, name, val) ==
    IF name \in DOMAIN heap[e].store
    THEN [heap EXCEPT ![e].store = (name :> val) @@ @]
    ELSE IF heap[e].outer # NoEnv /\ Get(heap, heap[e].outer, name).ok
    THEN Update(heap, heap[e].outer, name, val)
    ELSE [heap EXCEPT ![e].store = (name :> val) @@ @]

\* builtins.GetJSON(): the methods of the JSON namespace object
GetJSON ==
    <<"s", "t", "r", "i", "n", "g", "i", "f", "y">> :> Builtin("JSON.stringify")
    @@ <<"p", "a", "r", "s", "e">> :> Builtin("JSON.parse")

\* NewGlobalEnvironment: New(nil) with JSON bound to the namespace object
NewGlobalEnvironment ==
    Set(New(<< >>, NoEnv), 1, <<"J", "S", "O", "N">>, Object(GetJSON))

Global == 1

(***************************************************************************)
(* evaluator.  Eval(node, env, st) returns [val, st].  The evaluation      *)
(* state st threads what the Go call tree shares or observes:              *)
(*   heap      the Environments                                            *)
(*   fuel      loop iterations and closure calls still allowed; a run that *)
(*             needs more has not returned (diverged)                      *)
(*   panicked  a nil-pointer dereference has aborted the run               *)
(*   call      the activation being executed: the fnEnv of the closure     *)
(*             call, NoEnv for the program itself                          *)
(*   ord       the order in which this run's "range" over a Go map visits  *)
(*             the keys (unspecified by Go, so an input of the run)        *)
(*   trace     the events of the run, for stating properties               *)
(***************************************************************************)
Emit(st, ev) == [st EXCEPT !.trace = Append(@, ev)]

Stopped(st) == st.diverged \/ st.panicked

isTruthy(val) ==
    CASE val.t = "nil" -> FALSE
      [] val.t = "bool" -> val.b
      [] val.t = "num" -> val.n # 0
      [] val.t = "str" -> val.s # << >>
      [] OTHER -> TRUE

\* fmt.Sscanf(v, "%f", &num) on the strings of this model: leading spaces,
\* an optional sign, digits with at most one '.'; anything else leaves num 0
RECURSIVE SkipSpaces(_)
SkipSpaces(str) ==
    IF str # << >> /\ str[1] = " " THEN SkipSpaces(Tail(str)) ELSE str

RECURSIVE NumberPrefix(_, _)
NumberPrefix(str, dotSeen) ==
    IF str = << >> THEN << >>
    ELSE IF isDigit(str[1]) THEN <<str[1]>> \o NumberPrefix(Tail(str), dotSeen)
    ELSE IF str[1] = "." /\ ~dotSeen THEN <<".">> \o NumberPrefix(Tail(str), TRUE)
    ELSE << >>

Sscanf(str) ==
    LET s1 == SkipSpaces(str)
        neg == s1 # << >> /\ s1[1] = "-"
        s2 == IF s1 # << >> /\ s1[1] \in {"-", "+"} THEN Tail(s1) ELSE s1
        pre == NumberPrefix(s2, FALSE)
    IN  IF pre = << >> \/ ~isDigit(pre[1]) THEN Float(0)
        ELSE IF neg THEN NumNeg(ParseFloat(pre).val) ELSE ParseFloat(pre).val

\* faulty toFloat: no case for bool, so that true falls to the default
toFloatNoBool(val) ==
    CASE val.t = "nil" -> Float(0)
      [] val.t = "num" -> val
      [] val.t = "str" -> Sscanf(val.s)
      [] OTHER -> Float(0)

toFloat(val) ==
    CASE val.t = "nil" -> Float(0)
      [] val.t = "num" -> val
      [] val.t = "bool" -> IF val.b THEN Float(1) ELSE Float(0)
      [] val.t = "str" -> Sscanf(val.s)
      [] OTHER -> Float(0)

\* faulty equals: operands of different types are compared as numbers
equalsCoercing(a, b) ==
    IF a.t = b.t THEN a = b ELSE toFloat(a) = toFloat(b)

equals(a, b) ==
    IF a.t = "nil" /\ b.t = "nil" THEN TRUE
    ELSE IF a.t = "nil" \/ b.t = "nil" THEN FALSE
    ELSE CASE a.t = "num" -> b.t = "num" /\ a.n = b.n /\ a.d = b.d
           [] a.t = "str" -> b.t = "str" /\ a.s = b.s
           [] a.t = "bool" -> b.t = "bool" /\ a.b = b.b
           [] OTHER -> FALSE

DigitChar == <<"0", "1", "2", "3", "4", "5", "6", "7", "8", "9">>

RECURSIVE NatToString(_)
NatToString(n) ==
    IF n < 10 THEN <<DigitChar[n + 1]>>
    ELSE NatToString(n \div 10) \o <<DigitChar[(n % 10) + 1]>>

\* internal.ToString (builtins.toString) for nil, strings, booleans and integral numbers; the
\* digits %v prints for a fraction, and the text of an object or a function,
\* are not modelled (the text "?" stands for them)
toString(val) ==
    CASE val.t = "nil" -> <<"n", "i", "l">>
      [] val.t = "str" -> val.s
      [] val.t = "num" /\ val.d = 1 ->
           IF val.n < 0 THEN <<"-">> \o NatToString(-val.n) ELSE NatToString(val.n)
      [] val.t = "bool" ->
           IF val.b THEN <<"t", "r", "u", "e">> ELSE <<"f", "a", "l", "s", "e">>
      [] OTHER -> <<"?">>

(***************************************************************************)
(* array: ArrayReference and the methods of an array.                      *)
(***************************************************************************)
NewArrayReference(heap, elements) == Append(heap, [Elements |-> elements])

\* ArrayReference.Get: index is an int
ArrayGet(heap, ar, index) ==
    IF index < 0 \/ index >= Len(heap[ar].Elements) THEN Nil
    ELSE heap[ar].Elements[index + 1]

\* faulty Push: the values are appended to a copy of the slice
PushToCopy(heap, ar, values) ==
    [heap |-> heap, val |-> Float(Len(heap[ar].Elements \o values))]

\* ArrayReference.Push returns [heap, val]: the slice behind the pointer is
\* replaced by the appended one, val is its new length
Push(heap, ar, values) ==
    [heap |-> [heap EXCEPT ![ar].Elements = @ \o values],
     val |-> Float(Len(heap[ar].Elements \o values))]

Length(heap, ar) == Float(Len(heap[ar].Elements))

\* the *Builtin whose Fn is the closure over arr; Name stands for the closure
createPushMethod(arr) == [t |-> "builtin", Name |-> "push", arr |-> arr]

createMapMethod(arr) == [t |-> "builtin", Name |-> "map", arr |-> arr]

createFilterMethod(arr) == [t |-> "builtin", Name |-> "filter", arr |-> arr]

GetArrayProperty(heap, arr, property) ==
    CASE property = <<"l", "e", "n", "g", "t", "h">> -> Length(heap, arr)
      [] property = <<"p", "u", "s", "h">> -> createPushMethod(arr)
      [] property = <<"m", "a", "p">> -> createMapMethod(arr)
      [] property = <<"f", "i", "l", "t", "e", "r">> -> createFilterMethod(arr)
      [] OTHER -> Nil

\* the registry of builtins.go: name -> *Builtin
builtins ==
    <<"p", "r", "i", "n", "t">> :> Builtin("print")
    @@ <<"f", "e", "t", "c", "h">> :> Builtin("fetch")

(***************************************************************************)
(* encoding/json as the JSON methods use it.  Marshal is modelled on nil,  *)
(* float64, bool, string, maps with string keys, slices and *Builtin;      *)
(* Unmarshal fills an interface{}.  A float64 is written in its shortest   *)
(* decimal text, which is finite and without exponent for the numbers of   *)
(* this model; strings hold no control byte and none of <, >, &; of the    *)
(* escapes Unmarshal reads, only those Marshal writes here are modelled.   *)
(***************************************************************************)
Ascii ==
    <<"0", "1", "2", "3", "4", "5", "6", "7", "8", "9",
      "A", "B", "C", "D", "E", "F", "G", "H", "I", "J", "K", "L", "M",
      "N", "O", "P", "Q", "R", "S", "T", "U", "V", "W", "X", "Y", "Z", "_",
      "a", "b", "c", "d", "e", "f", "g", "h", "i", "j", "k", "l", "m",
      "n", "o", "p", "q", "r", "s", "t", "u", "v", "w", "x", "y", "z">>

ByteRank(ch) == CHOOSE i \in DOMAIN Ascii : Ascii[i] = ch

\* a < b of two Go strings
RECURSIVE KeyLess(_, _)
KeyLess(a, b) ==
    IF b = << >> THEN FALSE
    ELSE IF a = << >> THEN TRUE
    ELSE IF a[1] = b[1] THEN KeyLess(Tail(a), Tail(b))
    ELSE ByteRank(a[1]) < ByteRank(b[1])

\* the keys of a map in the order Marshal writes them: sorted
RECURSIVE SortedKeys(_)
SortedKeys(keys) ==
    IF keys = {} THEN << >>
    ELSE With(CHOOSE k \in keys : \A j \in keys \ {k} : KeyLess(k, j), LAMBDA k :
           <<k>> \o SortedKeys(keys \ {k}))

\* the digits after the point of r/d, r < d
RECURSIVE FractionDigits(_, _)
FractionDigits(r, d) ==
    IF r = 0 THEN << >>
    ELSE <<DigitChar[((r * 10) \div d) + 1]>> \o FractionDigits((r * 10) % d, d)

\* the text of a float64 (floatEncoder)
FormatFloat(num) ==
    (IF num.n < 0 THEN <<"-">> ELSE << >>)
    \o NatToString(Abs(num.n) \div num.d)
    \o (IF Abs(num.n) % num.d = 0 THEN << >>
        ELSE <<".">> \o FractionDigits(Abs(num.n) % num.d, num.d))

RECURSIVE Escaped(_)
Escaped(s) ==
    IF s = << >> THEN << >>
    ELSE (IF s[1] \in {"\"", "\\"} THEN <<"\\", s[1]>> ELSE <<s[1]>>)
         \o Escaped(Tail(s))

\* the text of a string (stringEncoder)
Quote(s) == <<"\"">> \o Escaped(s) \o <<"\"">>

\* Marshal returns [ok, s]: the text, or ok = FALSE for an unsupported type
RECURSIVE Marshal(_)
RECURSIVE MarshalFields(_, _, _)
RECURSIVE MarshalElems(_, _)
Marshal(val) ==
    CASE val.t = "nil" -> [ok |-> TRUE, s |-> <<"n", "u", "l", "l">>]
      [] val.t = "num" -> [ok |-> TRUE, s |-> FormatFloat(val)]
      [] val.t = "bool" -> [ok |-> TRUE, s |-> toString(val)]
      [] val.t = "str" -> [ok |-> TRUE, s |-> Quote(val.s)]
      [] val.t \in {"obj", "map"} ->
           With(MarshalFields(val.fields, SortedKeys(DOMAIN val.fields), 1),
                LAMBDA m : [ok |-> m.ok, s |-> <<"{">> \o m.s \o <<"}">>])
      [] val.t = "slice" ->
           With(MarshalElems(val.elems, 1),
                LAMBDA m : [ok |-> m.ok, s |-> <<"[">> \o m.s \o <<"]">>])
      [] val.t = "builtin" -> [ok |-> FALSE, s |-> << >>]

MarshalFields(fields, keys, i) ==
    IF i > Len(keys) THEN [ok |-> TRUE, s |-> << >>]
    ELSE With(Marshal(fields[keys[i]]), LAMBDA v :
           With(MarshalFields(fields, keys, i + 1), LAMBDA rest :
             [ok |-> v.ok /\ rest.ok,
              s |-> (IF i > 1 THEN <<",">> ELSE << >>)
                    \o Quote(keys[i]) \o <<":">> \o v.s \o rest.s]))

MarshalElems(elems, i) ==
    IF i > Len(elems) THEN [ok |-> TRUE, s |-> << >>]
    ELSE With(Marshal(elems[i]), LAMBDA v :
           With(MarshalElems(elems, i + 1), LAMBDA rest :
             [ok |-> v.ok /\ rest.ok,
              s |-> (IF i > 1 THEN <<",">> ELSE << >>) \o v.s \o rest.s]))

Drop(s, n) == SubSeq(s, n + 1, Len(s))

HasPrefix(s, w) == Len(s) >= Len(w) /\ SubSeq(s, 1, Len(w)) = w

RECURSIVE skipSpace(_)
skipSpace(s) ==
    IF s # << >> /\ s[1] \in {" ", "\t", "\n", "\r"} THEN skipSpace(Tail(s)) ELSE s

RECURSIVE DigitsPrefix(_)
DigitsPrefix(s) ==
    IF s # << >> /\ isDigit(s[1]) THEN <<s[1]>> \o DigitsPrefix(Tail(s)) ELSE << >>

\* the outcome [ok, val, rest] of decoding a value at the head of a text
SyntaxError == [ok |-> FALSE, val |-> Nil, rest |-> << >>]

Decoded(val, rest) == [ok |-> TRUE, val |-> val, rest |-> rest]

\* a number whose sign is read: integer part, then an optional fraction
decodeDigits(s, sign) ==
    With(DigitsPrefix(s), LAMBDA int :
      With(Drop(s, Len(int)), LAMBDA s2 :
        IF int = << >> \/ (Len(int) > 1 /\ int[1] = "0") THEN SyntaxError
        ELSE IF s2 = << >> \/ s2[1] # "." THEN Decoded(Float(sign * DigitsValue(int)), s2)
        ELSE With(DigitsPrefix(Tail(s2)), LAMBDA frac :
               IF frac = << >> THEN SyntaxError
               ELSE Decoded(Num(sign * DigitsValue(int \o frac), Pow10(Len(frac))),
                            Drop(s2, Len(frac) + 1)))))

decodeNumber(s) ==
    IF s[1] = "-" THEN decodeDigits(Tail(s), -1) ELSE decodeDigits(s, 1)

\* the bytes of a string after its opening quote; acc is what was read
RECURSIVE decodeString(_, _)
decodeString(s, acc) ==
    IF s = << >> THEN SyntaxError
    ELSE IF s[1] = "\"" THEN Decoded(Str(acc), Tail(s))
    ELSE IF s[1] = "\\"
    THEN IF Len(s) >= 2 /\ s[2] \in {"\"", "\\", "/"}
         THEN decodeString(Drop(s, 2), Append(acc, s[2]))
         ELSE SyntaxError
    ELSE decodeString(Tail(s), Append(acc, s[1]))

RECURSIVE decodeValue(_)
RECURSIVE decodeElements(_, _)
RECURSIVE decodeMembers(_, _)
\* the elements of an array after '[' or ','; acc is what was read
decodeElements(s, acc) ==
    With(decodeValue(s), LAMBDA v :
      IF ~v.ok THEN SyntaxError
      ELSE With(skipSpace(v.rest), LAMBDA r :
             IF r = << >> THEN SyntaxError
             ELSE IF r[1] = "," THEN decodeElements(Tail(r), Append(acc, v.val))
             ELSE IF r[1] = "]" THEN Decoded(NativeSlice(Append(acc, v.val)), Tail(r))
             ELSE SyntaxError))

\* the value of a member whose key is read; a key read twice keeps the later value
decodeMember(key, s, fields) ==
    With(decodeValue(s), LAMBDA v :
      IF ~v.ok THEN SyntaxError
      ELSE With(skipSpace(v.rest), LAMBDA r :
             IF r = << >> THEN SyntaxError
             ELSE IF r[1] = "," THEN decodeMembers(Tail(r), (key :> v.val) @@ fields)
             ELSE IF r[1] = "}"
             THEN Decoded(NativeMap((key :> v.val) @@ fields), Tail(r))
             ELSE SyntaxError))

\* the members of an object after '{' or ','
decodeMembers(s, fields) ==
    With(skipSpace(s), LAMBDA s1 :
      IF s1 = << >> \/ s1[1] # "\"" THEN SyntaxError
      ELSE With(decodeString(Tail(s1), << >>), LAMBDA k :
             IF ~k.ok THEN SyntaxError
             ELSE With(skipSpace(k.rest), LAMBDA s2 :
                    IF s2 = << >> \/ s2[1] # ":" THEN SyntaxError
                    ELSE decodeMember(k.val.s, Tail(s2), fields))))

decodeLiteral(s, word, val) ==
    IF HasPrefix(s, word) THEN Decoded(val, Drop(s, Len(word))) ELSE SyntaxError

decodeArray(s) ==
    IF s # << >> /\ s[1] = "]" THEN Decoded(NativeSlice(<< >>), Tail(s))
    ELSE decodeElements(s, << >>)

decodeObject(s) ==
    IF s # << >> /\ s[1] = "}" THEN Decoded(NativeMap(<< >>), Tail(s))
    ELSE decodeMembers(s, << >>)

decodeValue(s) ==
    With(skipSpace(s), LAMBDA s1 :
      IF s1 = << >> THEN SyntaxError
      ELSE CASE s1[1] = "n" -> decodeLiteral(s1, <<"n", "u", "l", "l">>, Nil)
             [] s1[1] = "t" -> decodeLiteral(s1, <<"t", "r", "u", "e">>, Bool(TRUE))
             [] s1[1] = "f" ->
                  decodeLiteral(s1, <<"f", "a", "l", "s", "e">>, Bool(FALSE))
             [] s1[1] = "\"" -> decodeString(Tail(s1), << >>)
             [] s1[1] = "[" -> decodeArray(skipSpace(Tail(s1)))
             [] s1[1] = "{" -> decodeObject(skipSpace(Tail(s1)))
             [] s1[1] = "-" \/ isDigit(s1[1]) -> decodeNumber(s1)
             [] OTHER -> SyntaxError)

\* Unmarshal into an interface{}: one value, then nothing but space
Unmarshal(s) ==
    With(decodeValue(s), LAMBDA v :
      IF v.ok /\ skipSpace(v.rest) = << >> THEN v ELSE SyntaxError)

RECURSIVE convertJSONTypes(_)
convertJSONTypes(val) ==
    CASE val.t = "map" ->
           NativeMap([k \in DOMAIN val.fields |-> convertJSONTypes(val.fields[k])])
      [] val.t = "slice" ->
           NativeSlice([i \in DOMAIN val.elems |-> convertJSONTypes(val.elems[i])])
      [] OTHER -> val

\* fmt's %T of a value
TypeName(val) ==
    CASE val.t = "nil" -> "<nil>"
      [] val.t = "num" -> "float64"
      [] val.t = "bool" -> "bool"
      [] val.t = "str" -> "string"
      [] val.t = "obj" -> "internal.Object"
      [] val.t = "map" -> "map[string]interface {}"
      [] val.t = "slice" -> "[]interface {}"
      [] val.t = "array" -> "*array.ArrayReference"
      [] val.t = "fn" -> "*evaluator.Function"
      [] val.t = "builtin" -> "*internal.Builtin"
      [] val.t = "return" -> "*internal.ReturnValue"

\* map[string]interface{}{"error": message}; a message is one unit of text
ErrorResult(message) == NativeMap(<<"e", "r", "r", "o", "r">> :> Str(message))

\* the Fn of Fetch up to the HTTP exchange.  The exchange itself is outside
\* the model: it is taken to fail, which Fetch reports as err.Error().
Fetch(args) ==
    IF Len(args) < 1 \/ Len(args) > 2
    THEN ErrorResult(<<"fetch requires 1 or 2 arguments (url, options?)">>)
    ELSE IF Len(args) = 2 /\ args[2].t \notin {"obj", "map"}
    THEN ErrorResult(<<"second argument must be an options object, got ",
                       TypeName(args[2])>>)
    ELSE ErrorResult(<<"request failed">>)

\* the Fn of Stringify
JSONStringify(args) ==
    IF Len(args) # 1
    THEN ErrorResult(<<"JSON.stringify requires exactly 1 argument">>)
    ELSE With(Marshal(args[1]), LAMBDA m :
           IF ~m.ok THEN ErrorResult(<<"JSON.stringify error: unsupported type">>)
           ELSE Str(m.s))

\* the Fn of Parse
JSONParse(args) ==
    IF Len(args) # 1 THEN ErrorResult(<<"JSON.parse requires exactly 1 argument">>)
    ELSE IF args[1].t # "str"
    THEN ErrorResult(<<"JSON.parse requires a string argument, got ",
                       TypeName(args[1])>>)
    ELSE With(Unmarshal(args[1].s), LAMBDA u :
           IF ~u.ok THEN ErrorResult(<<"JSON.parse error: invalid JSON">>)
           ELSE convertJSONTypes(u.val))

\* the result [val, st] of a native function that leaves the heap alone
Returns(val, builtin, args, st) ==
    [val |-> val,
     st |-> Emit(st, [op |-> "Native", name |-> builtin.Name, args |-> args])]

\* the Fn of createPushMethod: arr.Push(values...)
callPush(builtin, args, st) ==
    With(Push(st.heap, builtin.arr, args), LAMBDA r :
      Returns(r.val, builtin, args, [st EXCEPT !.heap = r.heap]))

\* builtin.Fn(args...) of the functions that call nothing back: print writes
\* its arguments and returns nil
NativeCall(builtin, args, st) ==
    CASE builtin.Name = "push" -> callPush(builtin, args, st)
      [] builtin.Name = "fetch" -> Returns(Fetch(args), builtin, args, st)
      [] builtin.Name = "JSON.stringify" ->
           Returns(JSONStringify(args), builtin, args, st)
      [] builtin.Name = "JSON.parse" -> Returns(JSONParse(args), builtin, args, st)
      [] OTHER -> Returns(Nil, builtin, args, st)

StatementTypes ==
    {"VarStatement", "ReturnStatement", "ExpressionStatement", "BlockStatement",
     "IfStatement", "WhileStatement"}

\* faulty callEnvOuter: dynamic scoping, the parent is the caller's scope
callerScope(fn, env) == env

\* faulty unwrapReturnValue: the wrapper is passed on
keepReturnValue(result) == result

\* evalCallExpression: the parent of the environment of a closure call
callEnvOuter(fn, env) == fn.Env

\* evalCallExpression, evalProgram: a ReturnValue is replaced by its Value
unwrapReturnValue(result) ==
    IF IsReturnValue(result) THEN result.Value ELSE result

\* the keys of an object literal in the order this run's range visits them
RECURSIVE RangeOrder(_, _)
RangeOrder(keys, ord) ==
    IF keys = {} THEN << >>
    ELSE LET inOrd == {i \in 1..Len(ord) : ord[i] \in keys}
             k == IF inOrd # {}
                  THEN ord[CHOOSE i \in inOrd : \A j \in inOrd : i <= j]
                  ELSE CHOOSE x \in keys : TRUE
         IN  <<k>> \o RangeOrder(keys \ {k}, ord)

\* int(idx): the conversion of a float64 to int truncates towards zero
ToInt(num) == IF num.n >= 0 THEN num.n \div num.d ELSE -((-num.n) \div num.d)

RECURSIVE Eval(_, _, _), evalProgramLoop(_, _, _, _, _), evalBlockLoop(_, _, _, _, _),
          evalWhileLoop(_, _, _, _), evalExpressions(_, _, _, _),
          evalPairs(_, _, _, _, _), callbackLoop(_, _, _, _, _, _)

evalProgram(program, env, st) ==
    evalProgramLoop(program.Statements, 1, env, st, Nil)

\* faulty loop of evalProgram: a ReturnValue is unwrapped and the loop goes on
evalProgramLoopThrough(stmts, i, env, st, result) ==
    IF i > Len(stmts) \/ Stopped(st) THEN [val |-> result, st |-> st]
    ELSE LET r == Eval(stmts[i], env, st)
         IN  evalProgramLoop(stmts, i + 1, env, r.st, unwrapReturnValue(r.val))

evalProgramLoop(stmts, i, env, st, result) ==
    IF i > Len(stmts) \/ Stopped(st) THEN [val |-> result, st |-> st]
    ELSE LET r == Eval(stmts[i], env, st)
         IN  IF IsReturnValue(r.val)
             THEN [val |-> unwrapReturnValue(r.val), st |-> r.st]
             ELSE evalProgramLoop(stmts, i + 1, env, r.st, r.val)

evalVarStatement(node, env, st) ==
    LET v == IF node.Value # NilNode THEN Eval(node.Value, env, st)
             ELSE [val |-> Nil, st |-> st]
        post == Set(v.st.heap, env, node.Name, v.val)
    IN  [val |-> v.val,
         st |-> Emit([v.st EXCEPT !.heap = post],
                     [op |-> "Set", by |-> "var", env |-> env, name |-> node.Name,
                      val |-> v.val, pre |-> v.st.heap, post |-> post])]

evalReturnStatement(node, env, st) ==
    LET v == Eval(node.Value, env, st)
    IN  [val |-> ReturnValue(v.val),
         st |-> Emit(v.st, [op |-> "Return", call |-> st.call, val |-> v.val])]

\* faulty evalBlockLoop: the loop does not stop at a ReturnValue
RECURSIVE evalBlockLoopThrough(_, _, _, _, _)
evalBlockLoopThrough(stmts, i, blockEnv, st, result) ==
    IF i > Len(stmts) \/ Stopped(st) THEN [val |-> result, st |-> st]
    ELSE LET r == Eval(stmts[i], blockEnv, st)
         IN  evalBlockLoopThrough(stmts, i + 1, blockEnv, r.st,
                                  IF IsReturnValue(result) THEN result ELSE r.val)

evalBlockLoop(stmts, i, blockEnv, st, result) ==
    IF i > Len(stmts) \/ Stopped(st) THEN [val |-> result, st |-> st]
    ELSE LET r == Eval(stmts[i], blockEnv, st)
         IN  IF IsReturnValue(r.val) THEN r
             ELSE evalBlockLoop(stmts, i + 1, blockEnv, r.st, r.val)

\* faulty evalBlockStatement: the statements run in the enclosing scope
evalBlockStatementInPlace(block, env, st) ==
    LET r == evalBlockLoop(block.Statements, 1, env, st, Nil)
    IN  [val |-> r.val,
         st |-> Emit(r.st, [op |-> "BlockEnd", env |-> env, in |-> env,
                            pre |-> st.heap, post |-> r.st.heap])]

evalBlockStatement(block, env, st) ==
    LET blockEnv == NewEnv(st.heap)
        st1 == Emit([st EXCEPT !.heap = New(st.heap, env)],
                    [op |-> "New", by |-> "block", env |-> blockEnv, in |-> env])
        r == evalBlockLoop(block.Statements, 1, blockEnv, st1, Nil)
    IN  [val |-> r.val,
         st |-> Emit(r.st, [op |-> "BlockEnd", env |-> blockEnv, in |-> env,
                            pre |-> st.heap, post |-> r.st.heap])]

evalIfStatement(node, env, st) ==
    LET c == Eval(node.Condition, env, st)
    IN  IF isTruthy(c.val) THEN Eval(node.Consequence, env, c.st)
        ELSE IF node.Alternative # NilNode THEN Eval(node.Alternative, env, c.st)
        ELSE [val |-> Nil, st |-> c.st]

\* the loop of evalWhileStatement; result is the value of the last body run
evalWhileLoop(node, env, st, result) ==
    LET c == Eval(node.Condition, env, st)
    IN  IF ~isTruthy(c.val) \/ Stopped(c.st) THEN [val |-> result, st |-> c.st]
        ELSE IF c.st.fuel = 0
        THEN [val |-> Nil, st |-> [c.st EXCEPT !.diverged = TRUE]]
        ELSE LET b == Eval(node.Body, env, [c.st EXCEPT !.fuel = @ - 1])
             IN  IF IsReturnValue(b.val) THEN b
                 ELSE evalWhileLoop(node, env, b.st, b.val)

evalWhileStatement(node, env, st) == evalWhileLoop(node, env, st, Nil)

evalIdentifier(node, env, st) ==
    LET g == Get(st.heap, env, node.Name)
    IN  [val |-> IF ~g.ok THEN Nil ELSE g.val, st |-> st]

evalPrefixExpression(node, env, st) ==
    LET right == Eval(node.Right, env, st)
    IN  [val |-> CASE node.Operator = <<"!">> -> Bool(~isTruthy(right.val))
                   [] node.Operator = <<"-">> ->
                        IF right.val.t = "num" THEN NumNeg(right.val) ELSE Float(0)
                   [] OTHER -> Nil,
         st |-> right.st]

\* faulty divide: no test for a zero divisor; x / 0 of float64 is an infinity
\* or not a number, written as a fraction with denominator 0
divideUnchecked(left, right) ==
    IF toFloat(right).n = 0
    THEN [t |-> "num", n |-> toFloat(left).n, d |-> 0]
    ELSE NumDiv(toFloat(left), toFloat(right))

\* case "/" of evalInfixExpression
divide(left, right) ==
    IF toFloat(right).n = 0 THEN Float(0) ELSE NumDiv(toFloat(left), toFloat(right))

\* faulty switch of evalInfixExpression: == and != compare the two interface
\* values, so that a reference equals itself
applyInfixIdentical(operator, left, right) ==
    CASE operator = <<"+">> ->
           IF left.t = "str" THEN Str(left.s \o toString(right))
           ELSE IF right.t = "str" THEN Str(toString(left) \o right.s)
           ELSE NumAdd(toFloat(left), toFloat(right))
      [] operator = <<"-">> -> NumSub(toFloat(left), toFloat(right))
      [] operator = <<"*">> -> NumMul(toFloat(left), toFloat(right))
      [] operator = <<"/">> -> divide(left, right)
      [] operator = <<"=", "=">> -> Bool(left.t = right.t /\ left = right)
      [] operator = <<"!", "=">> -> Bool(~(left.t = right.t /\ left = right))
      [] operator = <<"<">> -> Bool(NumLess(toFloat(left), toFloat(right)))
      [] operator = <<">">> -> Bool(NumLess(toFloat(right), toFloat(left)))
      [] operator = <<"<", "=">> -> Bool(~NumLess(toFloat(right), toFloat(left)))
      [] operator = <<">", "=">> -> Bool(~NumLess(toFloat(left), toFloat(right)))
      [] OTHER -> Nil

\* the operator switch of evalInfixExpression
applyInfix(operator, left, right) ==
    CASE operator = <<"+">> ->
           IF left.t = "str" THEN Str(left.s \o toString(right))
           ELSE IF right.t = "str" THEN Str(toString(left) \o right.s)
           ELSE NumAdd(toFloat(left), toFloat(right))
      [] operator = <<"-">> -> NumSub(toFloat(left), toFloat(right))
      [] operator = <<"*">> -> NumMul(toFloat(left), toFloat(right))
      [] operator = <<"/">> -> divide(left, right)
      [] operator = <<"=", "=">> -> Bool(equals(left, right))
      [] operator = <<"!", "=">> -> Bool(~equals(left, right))
      [] operator = <<"<">> -> Bool(NumLess(toFloat(left), toFloat(right)))
      [] operator = <<">">> -> Bool(NumLess(toFloat(right), toFloat(left)))
      [] operator = <<"<", "=">> -> Bool(~NumLess(toFloat(right), toFloat(left)))
      [] operator = <<">", "=">> -> Bool(~NumLess(toFloat(left), toFloat(right)))
      [] OTHER -> Nil

evalInfixExpression(node, env, st) ==
    LET left == Eval(node.Left, env, st)
        right == Eval(node.Right, env, left.st)
    IN  [val |-> applyInfix(node.Operator, left.val, right.val), st |-> right.st]

evalAssignExpression(node, env, st) ==
    LET v == Eval(node.Value, env, st)
        post == Update(v.st.heap, env, node.Name, v.val)
    IN  [val |-> v.val,
         st |-> Emit([v.st EXCEPT !.heap = post],
                     [op |-> "Update", env |-> env, name |-> node.Name,
                      val |-> v.val, pre |-> v.st.heap, post |-> post])]

\* the argument loops of evalCallExpression: returns [vals, st]
evalExpressions(nodes, i, env, st) ==
    IF i > Len(nodes) THEN [vals |-> << >>, st |-> st]
    ELSE LET a == Eval(nodes[i], env, st)
             rest == evalExpressions(nodes, i + 1, env, a.st)
         IN  [vals |-> <<a.val>> \o rest.vals, st |-> rest.st]

\* the parameter loop of evalCallExpression
RECURSIVE bindParameters(_, _, _, _, _)
bindParameters(heap, fnEnv, parameters, args, i) ==
    IF i > Len(parameters) THEN heap
    ELSE bindParameters(Set(heap, fnEnv, parameters[i],
                            IF i <= Len(args) THEN args[i] ELSE Nil),
                        fnEnv, parameters, args, i + 1)

\* faulty callFunction: the call runs on a copy of the captured scope
callFunctionOnCopy(node, fn, env, st) ==
    LET a == evalExpressions(node.Arguments, 1, env, st)
        copy == NewEnv(a.st.heap)
        fnEnv == copy + 1
        heap1 == bindParameters(New(Append(a.st.heap, a.st.heap[fn.Env]), copy),
                                fnEnv, fn.Parameters, a.vals, 1)
        st1 == Emit([a.st EXCEPT !.heap = heap1, !.fuel = @ - 1, !.call = fnEnv],
                    [op |-> "Call", call |-> fnEnv, fn |-> fn, in |-> env,
                     outer |-> heap1[fnEnv].outer, pre |-> heap1])
        r == Eval(fn.Body, fnEnv, st1)
        result == unwrapReturnValue(r.val)
    IN  IF Stopped(a.st) THEN [val |-> Nil, st |-> a.st]
        ELSE IF a.st.fuel = 0 THEN [val |-> Nil, st |-> [a.st EXCEPT !.diverged = TRUE]]
        ELSE [val |-> result,
              st |-> Emit([r.st EXCEPT !.call = st.call],
                          [op |-> "CallEnd", call |-> fnEnv, val |-> result])]

\* the closure call of evalCallExpression, from "args := []Value{}" on
callFunction(node, fn, env, st) ==
    LET a == evalExpressions(node.Arguments, 1, env, st)
        fnEnv == NewEnv(a.st.heap)
        heap1 == bindParameters(New(a.st.heap, callEnvOuter(fn, env)), fnEnv,
                                fn.Parameters, a.vals, 1)
        st1 == Emit([a.st EXCEPT !.heap = heap1, !.fuel = @ - 1, !.call = fnEnv],
                    [op |-> "Call", call |-> fnEnv, fn |-> fn, in |-> env,
                     outer |-> heap1[fnEnv].outer, pre |-> heap1])
        r == Eval(fn.Body, fnEnv, st1)
        result == unwrapReturnValue(r.val)
    IN  IF Stopped(a.st) THEN [val |-> Nil, st |-> a.st]
        ELSE IF a.st.fuel = 0 THEN [val |-> Nil, st |-> [a.st EXCEPT !.diverged = TRUE]]
        ELSE [val |-> result,
              st |-> Emit([r.st EXCEPT !.call = st.call],
                          [op |-> "CallEnd", call |-> fnEnv, val |-> result])]

\* callbackEnv of the Fn of map and filter: a child of the closure's scope
\* in which the first three parameters, as far as the function has them,
\* are set to the element, its index and the array
bindCallback(heap, fn, elem, i, arr) ==
    bindParameters(New(heap, fn.Env), NewEnv(heap),
                   SubSeq(fn.Parameters, 1,
                          IF Len(fn.Parameters) > 3 THEN 3 ELSE Len(fn.Parameters)),
                   <<elem, Float(i), Array(arr)>>, 1)

\* faulty range: the loop reads the slice behind the pointer anew in every
\* iteration, as  for i := 0; i < len(*arr.Elements); i++  does
rangeLive(elems, heap, arr) == heap[arr].Elements

\* for i, elem := range *arr.Elements: the range expression is evaluated
\* once, before the first iteration; the loop runs over that slice
rangeOver(elems, heap, arr) == elems

\* the loops of the Fn of map and of filter from iteration i on; elems is
\* *arr.Elements as it was when the loop began, acc the result so far.
\* Returns [vals, st].
callbackLoop(builtin, fn, elems, i, st, acc) ==
    With(rangeOver(elems, st.heap, builtin.arr), LAMBDA ranged :
      IF i > Len(ranged) \/ Stopped(st) THEN [vals |-> acc, st |-> st]
      ELSE IF st.fuel = 0 THEN [vals |-> acc, st |-> [st EXCEPT !.diverged = TRUE]]
      ELSE
      With(NewEnv(st.heap), LAMBDA callbackEnv :
      With(Eval(fn.Body, callbackEnv,
                [st EXCEPT !.heap = bindCallback(st.heap, fn, ranged[i], i - 1,
                                                 builtin.arr),
                           !.fuel = @ - 1, !.call = callbackEnv]), LAMBDA r :
      With(unwrapReturnValue(r.val), LAMBDA callbackResult :
        callbackLoop(builtin, fn, elems, i + 1,
                     Emit([r.st EXCEPT !.call = st.call],
                          [op |-> "Callback", name |-> builtin.Name,
                           arr |-> builtin.arr, index |-> i - 1,
                           elem |-> ranged[i], val |-> callbackResult]),
                     IF builtin.Name = "map" THEN Append(acc, callbackResult)
                     ELSE IF isTruthy(callbackResult) THEN Append(acc, ranged[i])
                     ELSE acc)))))

\* the Fn of map and filter once the loop is done: a new ArrayReference
callbackResults(builtin, args, r) ==
    IF Stopped(r.st) THEN [val |-> Nil, st |-> r.st]
    ELSE Returns(Array(NewEnv(r.st.heap)), builtin, args,
                 [r.st EXCEPT !.heap = NewArrayReference(@, r.vals)])

\* faulty Fn of map: the results are written over the elements of the
\* receiver, which is returned
callMapInPlace(builtin, args, st) ==
    IF Len(args) = 0 \/ args[1].t # "fn" THEN Returns(Nil, builtin, args, st)
    ELSE With(callbackLoop(builtin, args[1], st.heap[builtin.arr].Elements, 1, st,
                           << >>), LAMBDA r :
           IF Stopped(r.st) THEN [val |-> Nil, st |-> r.st]
           ELSE Returns(Array(builtin.arr), builtin, args,
                        [r.st EXCEPT !.heap[builtin.arr].Elements = r.vals]))

\* the Fn of createMapMethod
callMap(builtin, args, st) ==
    IF Len(args) = 0 \/ args[1].t # "fn" THEN Returns(Nil, builtin, args, st)
    ELSE callbackResults(builtin, args,
                         callbackLoop(builtin, args[1], st.heap[builtin.arr].Elements,
                                      1, st, << >>))

\* the Fn of createFilterMethod
callFilter(builtin, args, st) ==
    IF Len(args) = 0 \/ args[1].t # "fn" THEN Returns(Nil, builtin, args, st)
    ELSE callbackResults(builtin, args,
                         callbackLoop(builtin, args[1], st.heap[builtin.arr].Elements,
                                      1, st, << >>))

\* builtin.Fn(args...) of a *internal.Builtin that evalCallExpression got
\* from a property
callBuiltin(builtin, args, st) ==
    CASE builtin.Name = "map" -> callMap(builtin, args, st)
      [] builtin.Name = "filter" -> callFilter(builtin, args, st)
      [] OTHER -> NativeCall(builtin, args, st)

\* faulty evalCallExpression: the registry is asked only for a name that no
\* variable binds
evalCallExpressionVariableFirst(node, env, st) ==
    IF /\ node.Function.type = "Identifier"
       /\ node.Function.Name \in DOMAIN builtins
       /\ ~Get(st.heap, env, node.Function.Name).ok
    THEN LET a == evalExpressions(node.Arguments, 1, env, st)
         IN  NativeCall(builtins[node.Function.Name], a.vals, a.st)
    ELSE LET function == Eval(node.Function, env, st)
         IN  IF function.val.t = "builtin"
             THEN LET a == evalExpressions(node.Arguments, 1, env, function.st)
                  IN  callBuiltin(function.val, a.vals, a.st)
             ELSE IF function.val.t # "fn" THEN [val |-> Nil, st |-> function.st]
             ELSE callFunction(node, function.val, env, function.st)

evalCallExpression(node, env, st) ==
    IF node.Function.type = "Identifier" /\ node.Function.Name \in DOMAIN builtins
    THEN LET a == evalExpressions(node.Arguments, 1, env, st)
         IN  NativeCall(builtins[node.Function.Name], a.vals, a.st)
    ELSE LET function == Eval(node.Function, env, st)
         IN  IF function.val.t = "builtin"
             THEN LET a == evalExpressions(node.Arguments, 1, env, function.st)
                  IN  callBuiltin(function.val, a.vals, a.st)
             ELSE IF function.val.t # "fn" THEN [val |-> Nil, st |-> function.st]
             ELSE callFunction(node, function.val, env, function.st)

\* the range loop of evalObjectLiteral over the keys in visiting order
evalPairs(pairs, keys, i, env, st) ==
    IF i > Len(keys) THEN [fields |-> << >>, st |-> st]
    ELSE LET v == Eval(pairs[keys[i]], env, st)
             rest == evalPairs(pairs, keys, i + 1, env, v.st)
         IN  [fields |-> (keys[i] :> v.val) @@ rest.fields, st |-> rest.st]

evalObjectLiteral(node, env, st) ==
    LET r == evalPairs(node.Pairs, RangeOrder(DOMAIN node.Pairs, st.ord), 1, env, st)
    IN  [val |-> Object(r.fields), st |-> r.st]

\* evalArrayLiteral: the elements in order, then the ArrayReference of them
evalArrayLiteral(node, env, st) ==
    With(evalExpressions(node.Elements, 1, env, st), LAMBDA r :
      [val |-> Array(NewEnv(r.st.heap)),
       st |-> [r.st EXCEPT !.heap = NewArrayReference(r.st.heap, r.vals)]])

\* obj[key] of a Go map: the zero value nil for a missing key
MapIndex(fields, key) == IF key \in DOMAIN fields THEN fields[key] ELSE Nil

\* evalIndexExpression once left and index are evaluated and not nil
indexValue(heap, left, index) ==
    CASE left.t = "array" ->
           IF index.t # "num" THEN Nil ELSE ArrayGet(heap, left.ref, ToInt(index))
      [] left.t = "obj" ->
           IF index.t # "str" THEN Nil ELSE MapIndex(left.fields, index.s)
      [] OTHER -> Nil

\* evalPropertyAccess once the object is evaluated: the two type assertions
propertyOf(heap, object, property) ==
    CASE object.t = "array" -> GetArrayProperty(heap, object.ref, property)
      [] object.t = "obj" -> MapIndex(object.fields, property)
      [] OTHER -> Nil

evalIndexExpression(node, env, st) ==
    With(Eval(node.Left, env, st), LAMBDA left :
      IF left.val.t = "nil" THEN [val |-> Nil, st |-> left.st]
      ELSE With(Eval(node.Index, env, left.st), LAMBDA index :
             IF index.val.t = "nil" THEN [val |-> Nil, st |-> index.st]
             ELSE [val |-> indexValue(index.st.heap, left.val, index.val),
                   st |-> index.st]))

evalPropertyAccess(node, env, st) ==
    With(Eval(node.Object, env, st), LAMBDA object :
      [val |-> propertyOf(object.st.heap, object.val, node.Property),
       st |-> object.st])

Eval(node, env, st0) ==
    LET st == IF node.type \in StatementTypes
              THEN Emit(st0, [op |-> "Stmt", call |-> st0.call, env |-> env,
                               type |-> node.type])
              ELSE st0
    IN  IF Stopped(st0) THEN [val |-> Nil, st |-> st0]
        ELSE
        CASE node.type = "Program" -> evalProgram(node, env, st)
          [] node.type = "VarStatement" -> evalVarStatement(node, env, st)
          [] node.type = "ReturnStatement" -> evalReturnStatement(node, env, st)
          [] node.type = "ExpressionStatement" -> Eval(node.Expression, env, st)
          [] node.type = "BlockStatement" -> evalBlockStatement(node, env, st)
          [] node.type = "IfStatement" -> evalIfStatement(node, env, st)
          [] node.type = "WhileStatement" -> evalWhileStatement(node, env, st)
          [] node.type = "NumberLiteral" -> [val |-> node.Value, st |-> st]
          [] node.type = "StringLiteral" -> [val |-> Str(node.Value), st |-> st]
          [] node.type = "BooleanLiteral" -> [val |-> Bool(node.Value), st |-> st]
          [] node.type = "Identifier" -> evalIdentifier(node, env, st)
          [] node.type = "PrefixExpression" -> evalPrefixExpression(node, env, st)
          [] node.type = "InfixExpression" -> evalInfixExpression(node, env, st)
          [] node.type = "AssignExpression" -> evalAssignExpression(node, env, st)
          [] node.type = "FunctionLiteral" ->
               [val |-> Function(node.Parameters, node.Body, env), st |-> st]
          [] node.type = "CallExpression" -> evalCallExpression(node, env, st)
          [] node.type = "ObjectLiteral" -> evalObjectLiteral(node, env, st)
          [] node.type = "ArrayLiteral" -> evalArrayLiteral(node, env, st)
          [] node.type = "PropertyAccess" -> evalPropertyAccess(node, env, st)
          [] node.type = "IndexExpression" -> evalIndexExpression(node, env, st)
          \* a nil pointer of a statement type: the evalXxx function dereferences it
          [] node.type = "nilptr" -> [val |-> Nil, st |-> [st EXCEPT !.panicked = TRUE]]
          \* the nil interface matches no case of the type switch
          [] OTHER -> [val |-> Nil, st |-> st]

(***************************************************************************)
(* Reclaiming the heap.  An Environment or ArrayReference no live value or *)
(* scope refers to is reclaimed by the Go runtime; Collect keeps the cells *)
(* reachable from the roots and renumbers them in allocation order.        *)
(***************************************************************************)
RECURSIVE EnvsOfValue(_)
EnvsOfValue(v) ==
    CASE v.t = "fn" -> {v.Env}
      [] v.t = "array" -> {v.ref}
      [] v.t = "builtin" /\ "arr" \in DOMAIN v -> {v.arr}
      [] v.t \in {"obj", "map"} ->
           UNION {EnvsOfValue(v.fields[k]) : k \in DOMAIN v.fields}
      [] v.t = "slice" -> UNION {EnvsOfValue(v.elems[i]) : i \in DOMAIN v.elems}
      [] v.t = "return" -> EnvsOfValue(v.Value)
      [] OTHER -> {}

IsArrayReference(cell) == "Elements" \in DOMAIN cell

EnvsOfEnv(heap, e) ==
    IF IsArrayReference(heap[e])
    THEN UNION {EnvsOfValue(heap[e].Elements[i]) : i \in DOMAIN heap[e].Elements}
    ELSE (IF heap[e].outer = NoEnv THEN {} ELSE {heap[e].outer})
         \cup UNION {EnvsOfValue(heap[e].store[n]) : n \in DOMAIN heap[e].store}

RECURSIVE Reachable(_, _)
Reachable(heap, envs) ==
    LET more == envs \cup UNION {EnvsOfEnv(heap, e) : e \in envs}
    IN  IF more = envs THEN envs ELSE Reachable(heap, more)

RECURSIVE RenumberValue(_, _)
RenumberValue(v, live) ==
    CASE v.t = "fn" ->
           [v EXCEPT !.Env = Cardinality({e \in live : e <= v.Env})]
      [] v.t = "array" ->
           [v EXCEPT !.ref = Cardinality({e \in live : e <= v.ref})]
      [] v.t = "builtin" /\ "arr" \in DOMAIN v ->
           [v EXCEPT !.arr = Cardinality({e \in live : e <= v.arr})]
      [] v.t \in {"obj", "map"} ->
           [v EXCEPT !.fields = [k \in DOMAIN v.fields |->
                                   RenumberValue(v.fields[k], live)]]
      [] v.t = "slice" ->
           NativeSlice([i \in DOMAIN v.elems |-> RenumberValue(v.elems[i], live)])
      [] v.t = "return" -> ReturnValue(RenumberValue(v.Value, live))
      [] OTHER -> v

\* Collect returns [heap, val]: the live part of the heap and the root value
\* val, both with the pointers renumbered
Collect(heap, val) ==
    LET live == Reachable(heap, {Global} \cup EnvsOfValue(val))
        old(i) == CHOOSE e \in live : Cardinality({d \in live : d <= e}) = i
    IN  [heap |-> [i \in 1..Cardinality(live) |->
                      LET env == heap[old(i)]
                      IN  IF IsArrayReference(env)
                          THEN [Elements |-> [j \in DOMAIN env.Elements |->
                                                 RenumberValue(env.Elements[j], live)]]
                          ELSE
                          [store |-> [n \in DOMAIN env.store |->
                                         RenumberValue(env.store[n], live)],
                           outer |-> IF env.outer = NoEnv THEN NoEnv
                                     ELSE Cardinality({e \in live : e <= env.outer})]],
         val |-> RenumberValue(val, live)]

(***************************************************************************)
(* The state.                                                              *)
(*   code     the source text given to runCode                             *)
(*   pc       runCode's position: "start", "parsed", "running", "done"     *)
(*   program  the tree ParseProgram returned                               *)
(*   errors   p.Errors() after ParseProgram                                *)
(*   ok       runCode's result                                             *)
(*   heap     the Environments; env of runCode is Global                   *)
(*   result   evalProgram's variable result                                *)
(*   stmt     the statement evalProgram's loop evaluated last, as its      *)
(*            index in Statements (0: none)                                *)
(*   count    number of statements evalProgram's loop has evaluated        *)
(*   trace    the events of the last evaluation                            *)
(*   parser   the Parser of ParseProgram's statement loop                  *)
(***************************************************************************)
VARIABLES code, pc, program, errors, ok, heap, result, stmt, count, trace,
          lexer, tok, parser

vars ==
    <<code, pc, program, errors, ok, heap, result, stmt, count, trace, lexer, tok,
      parser>>

\* no token was asked for yet
NoToken == Token("", << >>)

\* the orders in which a range over the pairs of an object literal may run
ObjectKeys == {<<"a">>, <<"b">>}

RangeOrders == {<<x, y>> : x, y \in ObjectKeys} \ {<<x, x>> : x \in ObjectKeys}

StartState(h, ord) ==
    [heap |-> h, fuel |-> MaxFuel, diverged |-> FALSE, panicked |-> FALSE,
     trace |-> << >>, call |-> NoEnv, ord |-> ord]

(***************************************************************************)
(* The statements the interpreter is run on.  Each is written as source    *)
(* text and turned into a tree by the lexer and the parser above.          *)
(***************************************************************************)
DeclareX == <<"var", "x", "=", "5", ";">>

AssignX == <<"x", "=", "1", ";">>

AssignY == <<"y", "=", "4", ";">>

ReadX == <<"x", ";">>

ReadY == <<"y", ";">>

BlockAssignsX == <<"{", "x", "=", "10", ";", "}">>

BlockDeclaresX == <<"{", "var", "x", "=", "7", ";", "x", ";", "}">>

BlockDeclaresY == <<"{", "var", "y", "=", "1", ";", "}">>

BlockAssignsY == <<"{", "y", "=", "5", ";", "}">>

NestedAssignsX ==
    <<"{", "var", "x", "=", "2", ";", "{", "x", "=", "3", ";", "}", "x", ";", "}">>

WhileX == <<"while", "(", "x", "<", "7", ")", "{", "x", "=", "x", "+", "2", ";", "}">>

DeclareS ==
    <<"var", "s", "=", "function", "(", ")", "{", "var", "x", "=", "2", ";",
      "return", "x", ";", "}", ";">>

CallS == <<"s", "(", ")", ";">>

\* the counter of the README
DeclareM ==
    <<"var", "m", "=", "function", "(", ")", "{", "var", "c", "=", "0", ";",
      "return", "function", "(", ")", "{", "c", "=", "c", "+", "1", ";",
      "return", "c", ";", "}", ";", "}", ";">>

DeclareK == <<"var", "k", "=", "m", "(", ")", ";">>

CallK == <<"k", "(", ")", ";">>

CallKThrice ==
    <<"k", "(", ")", "*", "10", "*", "10", "+", "k", "(", ")", "*", "10", "+",
      "k", "(", ")", ";">>

\* a second counter
DeclareJ == <<"var", "j", "=", "m", "(", ")", ";">>

CallJ == <<"j", "(", ")", ";">>

\* two closures of one scope
DeclareP ==
    <<"var", "p", "=", "function", "(", ")", "{", "var", "c", "=", "0", ";",
      "return", "{", "a", ":", "function", "(", ")", "{", "c", "=", "c", "+",
      "1", ";", "return", "c", ";", "}", ",", "b", ":", "function", "(", ")",
      "{", "return", "c", ";", "}", "}", ";", "}", ";">>

DeclareQ == <<"var", "q", "=", "p", "(", ")", ";">>

CallQA == <<"q", ".", "a", "(", ")", ";">>

CallQB == <<"q", ".", "b", "(", ")", ";">>

DeclareF == <<"var", "f", "=", "function", "(", ")", "{", "return", "x", ";", "}", ";">>

DeclareG ==
    <<"var", "g", "=", "function", "(", ")", "{", "var", "x", "=", "2", ";",
      "return", "f", "(", ")", ";", "}", ";">>

CallG == <<"g", "(", ")", ";">>

DeclareH ==
    <<"var", "h", "=", "function", "(", "a", ")", "{", "while", "(", "true", ")",
      "{", "if", "(", "a", ")", "{", "return", "7", ";", "x", "=", "8", ";", "}",
      "a", "=", "true", ";", "}", "return", "9", ";", "}", ";">>

DeclareR == <<"var", "r", "=", "h", "(", ")", ";">>

PrintH == <<"print", "(", "h", "(", ")", ")", ";">>

DeclareO ==
    <<"var", "o", "=", "{", "a", ":", "h", "(", ")", ",", "b", ":", "x", "}", ";">>

ReadOA == <<"o", ".", "a", ";">>

ReturnX == <<"return", "x", ";">>

IfX ==
    <<"if", "(", "x", ")", "{", "return", "x", ";", "}", "else", "{", "y", "=",
      "3", ";", "}">>

DeclareW ==
    <<"var", "w", "=", "function", "(", ")", "{", "while", "(", "true", ")", "{",
      "return", "7", ";", "}", "return", "8", ";", "}", ";">>

CallW == <<"w", "(", ")", ";">>

StatementSources ==
    <<DeclareX, AssignX, AssignY, ReadX, ReadY, BlockAssignsX, BlockDeclaresX,
      BlockDeclaresY, BlockAssignsY, NestedAssignsX, WhileX, DeclareS, CallS,
      DeclareM, DeclareK, CallK, CallKThrice, DeclareP, DeclareQ, CallQA, CallQB,
      DeclareF, DeclareG, CallG, DeclareH, DeclareR, PrintH, DeclareO, ReadOA,
      ReturnX, IfX, DeclareW, CallW, DeclareJ, CallJ>>

Index(words) == CHOOSE i \in DOMAIN StatementSources : StatementSources[i] = words

\* the tree of the only statement of a source text
ParseStatement(words) ==
    ParseProgram(NewParser(Text(words))).node.Statements[1]

(***************************************************************************)
(* Statements with arrays, given as trees of the ast types: the text of an *)
(* array literal or of an index expression is beyond the lexer above.      *)
(***************************************************************************)
Identifier(name) == [type |-> "Identifier", Name |-> name]

NumberLiteral(n, d) == [type |-> "NumberLiteral", Value |-> Num(n, d)]

StringLiteral(str) == [type |-> "StringLiteral", Value |-> str]

VarStatement(name, value) == [type |-> "VarStatement", Name |-> name, Value |-> value]

ReturnStatement(value) == [type |-> "ReturnStatement", Value |-> value]

ExpressionStatement(e) == [type |-> "ExpressionStatement", Expression |-> e]

BlockStatement(stmts) == [type |-> "BlockStatement", Statements |-> stmts]

PrefixExpression(operator, right) ==
    [type |-> "PrefixExpression", Operator |-> operator, Right |-> right]

FunctionLiteral(parameters, body) ==
    [type |-> "FunctionLiteral", Parameters |-> parameters, Body |-> body]

CallExpression(function, arguments) ==
    [type |-> "CallExpression", Function |-> function, Arguments |-> arguments]

ArrayLiteral(elements) == [type |-> "ArrayLiteral", Elements |-> elements]

PropertyAccess(object, property) ==
    [type |-> "PropertyAccess", Object |-> object, Property |-> property]

IndexExpression(left, index) ==
    [type |-> "IndexExpression", Left |-> left, Index |-> index]

BooleanLiteral(b) == [type |-> "BooleanLiteral", Value |-> b]

InfixExpression(operator, left, right) ==
    [type |-> "InfixExpression", Operator |-> operator, Left |-> left, Right |-> right]

ObjectLiteral(pairs) == [type |-> "ObjectLiteral", Pairs |-> pairs]

Program(stmts) == [type |-> "Program", Statements |-> stmts]

\* object.push(values...);  as an expression
PushCall(object, values) ==
    CallExpression(PropertyAccess(object, <<"p", "u", "s", "h">>), values)

\* function(parameters) { return value; }
Returning(parameters, value) ==
    FunctionLiteral(parameters, BlockStatement(<<ReturnStatement(value)>>))

ArrayStatements ==
    << \* 1  var a = [1, 2];
       VarStatement(<<"a">>, ArrayLiteral(<<NumberLiteral(1, 1), NumberLiteral(2, 1)>>)),
       \* 2  var b = [1, 2];
       VarStatement(<<"b">>, ArrayLiteral(<<NumberLiteral(1, 1), NumberLiteral(2, 1)>>)),
       \* 3  var b = a;
       VarStatement(<<"b">>, Identifier(<<"a">>)),
       \* 4  a.push(3);
       ExpressionStatement(PushCall(Identifier(<<"a">>), <<NumberLiteral(3, 1)>>)),
       \* 5  b.push(4, 5);
       ExpressionStatement(PushCall(Identifier(<<"b">>),
                                    <<NumberLiteral(4, 1), NumberLiteral(5, 1)>>)),
       \* 6  var e = function(c) { return c.push(9); };
       VarStatement(<<"e">>, Returning(<<(<<"c">>)>>,
                       PushCall(Identifier(<<"c">>), <<NumberLiteral(9, 1)>>))),
       \* 7  e(b);
       ExpressionStatement(CallExpression(Identifier(<<"e">>), <<Identifier(<<"b">>)>>)),
       \* 8  var m = function(c) { return function() { return c.push(8); }; };
       VarStatement(<<"m">>, Returning(<<(<<"c">>)>>, Returning(<< >>,
                       PushCall(Identifier(<<"c">>), <<NumberLiteral(8, 1)>>)))),
       \* 9  var k = m(a);
       VarStatement(<<"k">>, CallExpression(Identifier(<<"m">>), <<Identifier(<<"a">>)>>)),
       \* 10 k();
       ExpressionStatement(CallExpression(Identifier(<<"k">>), << >>)),
       \* 11 a[0];
       ExpressionStatement(IndexExpression(Identifier(<<"a">>), NumberLiteral(0, 1))),
       \* 12 a[2];
       ExpressionStatement(IndexExpression(Identifier(<<"a">>), NumberLiteral(2, 1))),
       \* 13 a[-1];
       ExpressionStatement(IndexExpression(Identifier(<<"a">>),
                             PrefixExpression(<<"-">>, NumberLiteral(1, 1)))),
       \* 14 a[-0.5];
       ExpressionStatement(IndexExpression(Identifier(<<"a">>),
                             PrefixExpression(<<"-">>, NumberLiteral(1, 2)))),
       \* 15 a[2.5];
       ExpressionStatement(IndexExpression(Identifier(<<"a">>), NumberLiteral(5, 2))),
       \* 16 b.length;
       ExpressionStatement(PropertyAccess(Identifier(<<"b">>),
                                          <<"l", "e", "n", "g", "t", "h">>)) >>

\* the place of the k-th statement with arrays among Statements
ArrayIndex(k) == Len(StatementSources) + k

DeclareArrayA == ArrayIndex(1)

DeclareArrayB == ArrayIndex(2)

AliasB == ArrayIndex(3)

PushA == ArrayIndex(4)

PushB == ArrayIndex(5)

DeclareE == ArrayIndex(6)

CallEB == ArrayIndex(7)

DeclareMaker == ArrayIndex(8)

DeclareKept == ArrayIndex(9)

CallKept == ArrayIndex(10)

FirstOfA == ArrayIndex(11)

ThirdOfA == ArrayIndex(12)

MinusOneOfA == ArrayIndex(13)

MinusHalfOfA == ArrayIndex(14)

TwoAndHalfOfA == ArrayIndex(15)

LengthOfB == ArrayIndex(16)

(***************************************************************************)
(* Statements that call the native functions, given as trees as well.      *)
(***************************************************************************)
\* JSON.method(arguments...)  as an expression
JSONCall(method, arguments) ==
    CallExpression(PropertyAccess(Identifier(<<"J", "S", "O", "N">>), method),
                   arguments)

NativeStatements ==
    << \* 1  var print = function(v) { return 7; };
       VarStatement(<<"p", "r", "i", "n", "t">>,
                    Returning(<<(<<"v">>)>>, NumberLiteral(7, 1))),
       \* 2  print(1);
       ExpressionStatement(CallExpression(Identifier(<<"p", "r", "i", "n", "t">>),
                                          <<NumberLiteral(1, 1)>>)),
       \* 3  var fetch = function() { return 7; };
       VarStatement(<<"f", "e", "t", "c", "h">>, Returning(<< >>, NumberLiteral(7, 1))),
       \* 4  fetch();
       ExpressionStatement(CallExpression(Identifier(<<"f", "e", "t", "c", "h">>),
                                          << >>)),
       \* 5  var g = function(print) { return print(2); };
       VarStatement(<<"g">>,
                    Returning(<<(<<"p", "r", "i", "n", "t">>)>>,
                              CallExpression(Identifier(<<"p", "r", "i", "n", "t">>),
                                             <<NumberLiteral(2, 1)>>))),
       \* 6  g(5);
       ExpressionStatement(CallExpression(Identifier(<<"g">>),
                                          <<NumberLiteral(5, 1)>>)),
       \* 7  var r = fetch();
       VarStatement(<<"r">>, CallExpression(Identifier(<<"f", "e", "t", "c", "h">>),
                                            << >>)),
       \* 8  var r = fetch("u", 5);
       VarStatement(<<"r">>, CallExpression(Identifier(<<"f", "e", "t", "c", "h">>),
                               <<StringLiteral(<<"u">>), NumberLiteral(5, 1)>>)),
       \* 9  var r = JSON.parse();
       VarStatement(<<"r">>, JSONCall(<<"p", "a", "r", "s", "e">>, << >>)),
       \* 10 var r = JSON.parse(5);
       VarStatement(<<"r">>, JSONCall(<<"p", "a", "r", "s", "e">>,
                                      <<NumberLiteral(5, 1)>>)),
       \* 11 var r = JSON.parse("{");
       VarStatement(<<"r">>, JSONCall(<<"p", "a", "r", "s", "e">>,
                                      <<StringLiteral(<<"{">>)>>)),
       \* 12 var r = JSON.stringify();
       VarStatement(<<"r">>,
                    JSONCall(<<"s", "t", "r", "i", "n", "g", "i", "f", "y">>, << >>)),
       \* 13 var r = JSON.stringify(JSON);
       VarStatement(<<"r">>,
                    JSONCall(<<"s", "t", "r", "i", "n", "g", "i", "f", "y">>,
                             <<Identifier(<<"J", "S", "O", "N">>)>>)),
       \* 14 var r = JSON.stringify(5);
       VarStatement(<<"r">>,
                    JSONCall(<<"s", "t", "r", "i", "n", "g", "i", "f", "y">>,
                             <<NumberLiteral(5, 1)>>)),
       \* 15 r.error;
       ExpressionStatement(PropertyAccess(Identifier(<<"r">>),
                                          <<"e", "r", "r", "o", "r">>)) >>

\* the place of the k-th statement with natives among Statements
NativeIndex(k) == Len(StatementSources) + Len(ArrayStatements) + k

DeclarePrint == NativeIndex(1)

CallPrint == NativeIndex(2)

DeclareFetch == NativeIndex(3)

CallFetch == NativeIndex(4)

DeclareCaller == NativeIndex(5)

CallCaller == NativeIndex(6)

ReadRError == NativeIndex(15)

(***************************************************************************)
(* Statements that call map and filter, given as trees as well.            *)
(***************************************************************************)
\* a.method(f)  as an expression
MethodCall(method, f) ==
    CallExpression(PropertyAccess(Identifier(<<"a">>), method), <<Identifier(f)>>)

\* left operator right  of two names or numbers
Infix(operator, left, right) == InfixExpression(<<operator>>, left, right)

CallbackStatements ==
    << \* 1  var a = [1, 2];
       VarStatement(<<"a">>, ArrayLiteral(<<NumberLiteral(1, 1), NumberLiteral(2, 1)>>)),
       \* 2  var a = [];
       VarStatement(<<"a">>, ArrayLiteral(<< >>)),
       \* 3  a.push(3);
       ExpressionStatement(PushCall(Identifier(<<"a">>), <<NumberLiteral(3, 1)>>)),
       \* 4  var f = function(x, i, r) { return x * 10 + i + r.length * 100; };
       VarStatement(<<"f">>, Returning(<<(<<"x">>), (<<"i">>), (<<"r">>)>>,
         Infix("+", Infix("+", Infix("*", Identifier(<<"x">>), NumberLiteral(10, 1)),
                               Identifier(<<"i">>)),
                    Infix("*", PropertyAccess(Identifier(<<"r">>),
                                              <<"l", "e", "n", "g", "t", "h">>),
                               NumberLiteral(100, 1))))),
       \* 5  var g = function(x) { x + 1; };
       VarStatement(<<"g">>, FunctionLiteral(<<(<<"x">>)>>, BlockStatement(<<
         ExpressionStatement(Infix("+", Identifier(<<"x">>), NumberLiteral(1, 1)))>>))),
       \* 6  var h = function(x, i, r) { if (x < 2) { r.push(x + 5); } return x < 6; };
       VarStatement(<<"h">>, FunctionLiteral(<<(<<"x">>), (<<"i">>), (<<"r">>)>>,
         BlockStatement(<<
           [type |-> "IfStatement",
            Condition |-> Infix("<", Identifier(<<"x">>), NumberLiteral(2, 1)),
            Consequence |-> BlockStatement(<<
              ExpressionStatement(PushCall(Identifier(<<"r">>),
                <<Infix("+", Identifier(<<"x">>), NumberLiteral(5, 1))>>))>>),
            Alternative |-> NilNode],
           ReturnStatement(Infix("<", Identifier(<<"x">>), NumberLiteral(6, 1)))>>))),
       \* 7  var m = a.map(f);
       VarStatement(<<"m">>, MethodCall(<<"m", "a", "p">>, <<"f">>)),
       \* 8  var m = a.map(g);
       VarStatement(<<"m">>, MethodCall(<<"m", "a", "p">>, <<"g">>)),
       \* 9  var m = a.map(h);
       VarStatement(<<"m">>, MethodCall(<<"m", "a", "p">>, <<"h">>)),
       \* 10 var m = a.filter(h);
       VarStatement(<<"m">>, MethodCall(<<"f", "i", "l", "t", "e", "r">>, <<"h">>)) >>

CallbackIndex(k) == Len(StatementSources) + Len(ArrayStatements) + Len(NativeStatements) + k

MapF == CallbackIndex(7)

MapG == CallbackIndex(8)

MapH == CallbackIndex(9)

FilterH == CallbackIndex(10)

Statements ==
    [i \in DOMAIN StatementSources |-> ParseStatement(StatementSources[i])]
    \o ArrayStatements \o NativeStatements \o CallbackStatements

\* the statements of programs about scopes, about closures, about return
ScopeStatements ==
    {DeclareX, AssignX, AssignY, ReadX, ReadY, BlockAssignsX, BlockDeclaresX,
     BlockDeclaresY, BlockAssignsY, NestedAssignsX, WhileX, DeclareS, CallS}

ClosureStatements ==
    {DeclareX, AssignX, BlockAssignsX, DeclareM, DeclareK, CallK, CallKThrice,
     DeclareJ, CallJ, DeclareP, DeclareQ, CallQA, CallQB, DeclareF, DeclareG, CallG}

ReturnStatements ==
    {DeclareX, ReadX, DeclareH, DeclareR, PrintH, DeclareO, ReadOA, ReturnX, IfX,
     DeclareW, CallW, WhileX}

(***************************************************************************)
(* evalProgram, one iteration of its loop per step, on a program whose     *)
(* statements are drawn from a set of statements as the loop reaches them. *)
(***************************************************************************)
InitEval ==
    /\ code = << >>
    /\ pc = "running"
    /\ program = NilNode
    /\ errors = << >>
    /\ ok = TRUE
    /\ heap = NewGlobalEnvironment
    /\ result = Nil
    /\ stmt = 0
    /\ count = 0
    /\ trace = << >>
    /\ lexer = NewLexer(<< >>)
    /\ tok = NoToken
    /\ parser = NewParser(<< >>)

\* the body of the loop of evalProgram on statement Statements[i]
EvalStatement(i, ord) ==
    /\ pc = "running"
    /\ count < MaxStmts
    /\ With(Eval(Statements[i], Global, StartState(heap, ord)), LAMBDA r :
         With(Collect(r.st.heap, unwrapReturnValue(r.val)), LAMBDA kept :
           /\ ~Stopped(r.st)
           /\ heap' = kept.heap
           /\ result' = kept.val
           /\ trace' = r.st.trace
           /\ pc' = IF IsReturnValue(r.val) THEN "done" ELSE "running"))
    /\ stmt' = i
    /\ count' = count + 1
    /\ UNCHANGED <<code, program, errors, ok, lexer, tok, parser>>

\* the loop of evalProgram ends: no statement is left
EvalProgramEnd ==
    /\ pc = "running"
    /\ pc' = "done"
    /\ UNCHANGED <<code, program, errors, ok, heap, result, stmt, count, trace,
                   lexer, tok, parser>>

\* a statement without an object literal ranges over no map
RangeOrdersOf(words) ==
    IF \E j \in DOMAIN words : words[j] = ":" THEN RangeOrders ELSE {<< >>}

EvalOneOf(sources) ==
    \E words \in sources : \E ord \in RangeOrdersOf(words) :
        EvalStatement(Index(words), ord)

NextScopes ==
    \/ EvalOneOf(ScopeStatements)
    \/ EvalProgramEnd

NextClosures ==
    \/ EvalOneOf(ClosureStatements)
    \/ EvalProgramEnd

NextReturns ==
    \/ EvalOneOf(ReturnStatements)
    \/ EvalProgramEnd

NextArrays ==
    \/ \E k \in DOMAIN ArrayStatements : EvalStatement(ArrayIndex(k), << >>)
    \/ EvalProgramEnd

NextNatives ==
    \/ \E k \in DOMAIN NativeStatements : EvalStatement(NativeIndex(k), << >>)
    \/ EvalProgramEnd

NextCallbacks ==
    \/ \E k \in DOMAIN CallbackStatements : EvalStatement(CallbackIndex(k), << >>)
    \/ EvalProgramEnd

SpecScopes == InitEval /\ [][NextScopes]_vars

SpecClosures == InitEval /\ [][NextClosures]_vars

SpecReturns == InitEval /\ [][NextReturns]_vars

SpecArrays == InitEval /\ [][NextArrays]_vars

SpecNatives == InitEval /\ [][NextNatives]_vars

SpecCallbacks == InitEval /\ [][NextCallbacks]_vars

(***************************************************************************)
(* The scanner on its own: NextToken is called again and again on a text   *)
(* of at most MaxInput bytes, as the parser does, and past the end of it.  *)
(***************************************************************************)
\* the bytes of the texts: space and newline, a letter, a digit, bytes that
\* start operators, a comment or a string, a delimiter, bytes that start
\* nothing ('@' and the byte 0)
InputBytes == {" ", "\n", "a", "1", "=", "/", "\"", ";", "@", NUL}

RECURSIVE Inputs(_)
Inputs(n) ==
    IF n = 0 THEN {<< >>}
    ELSE Inputs(n - 1) \cup {Append(t, b) : t \in Inputs(n - 1), b \in InputBytes}

InitLexer ==
    /\ code \in Inputs(MaxInput)
    /\ pc = "scanning"
    /\ program = NilNode
    /\ errors = << >>
    /\ ok = TRUE
    /\ heap = NewGlobalEnvironment
    /\ result = Nil
    /\ stmt = 0
    /\ count = 0
    /\ trace = << >>
    /\ lexer = NewLexer(code)
    /\ tok = NoToken
    /\ parser = NewParser(<< >>)

\* tok := l.NextToken()
CallNextToken ==
    /\ pc = "scanning"
    /\ count <= Len(code)
    /\ With(NextToken(lexer), LAMBDA r : lexer' = r.l /\ tok' = r.tok)
    /\ count' = count + 1
    /\ UNCHANGED <<code, pc, program, errors, ok, heap, result, stmt, trace,
                   parser>>

NextLexer == CallNextToken

SpecLexer == InitLexer /\ [][NextLexer]_vars

(***************************************************************************)
(* The parser on its own: parser.New on a text of at most MaxWords words   *)
(* or a text of ParserTexts or AssignTexts, then ParseProgram's statement  *)
(* loop, one iteration at a time.                                          *)
(***************************************************************************)
ParserWords == {"{", "}", "a", ":", "1", "=", ".", "(", ")", "function", "-"}

RECURSIVE WordSeqs(_)
WordSeqs(n) ==
    IF n = 0 THEN {<< >>}
    ELSE WordSeqs(n - 1) \cup {Append(t, w) : t \in WordSeqs(n - 1), w \in ParserWords}

ParserTexts ==
    { <<"a", "=", "1", ";">>,
      <<"a", ".", "b", "=", "1", ";">>,
      <<"a", "+", "1", "=", "2", ";">>,
      <<"a", "(", ")", "=", "1", ";">>,
      <<"\"", "s", "\"", "=", "1", ";">>,
      <<"true", "=", "1", ";">>,
      <<"var", "f", "=", "function", "(", ")", "{", "return", "1", ";">>,
      <<"var", "o", "=", "{", "a", ":", "1">>,
      <<"var", "o", "=", "{", "a", ":", "1", ",">>,
      <<"var", "o", "=", "{", "a", ":", "1", "}", ";">>,
      <<"if", "(", "a", ")", "{", "a", "=", "1", ";">>,
      <<"while", "(", "a", ")", "{", "a", "=", "1", ";">>,
      <<"{", "a", ":", "b", ":", "1", "}">>,
      <<"a", "=", "{", "a", ":", "b", "a", ":", "1", "}", ";">>,
      <<"/", "/", "a", "\n", "a", ";">>,
      <<"\"", "a">> }

\* expressions that are no identifier: property accesses, infix and prefix
\* expressions, literals and calls
AssignTargets ==
    { <<"a", ".", "b">>, <<"a", ".", "b", ".", "c">>,
      <<"a", "+", "1">>, <<"1", "+", "a">>, <<"a", "*", "a">>, <<"a", "==", "1">>,
      <<"a", "<", "b">>,
      <<"-", "a">>, <<"!", "a">>,
      <<"1">>, <<"\"", "s", "\"">>, <<"true">>,
      <<"a", "(", ")">>, <<"a", "(", "1", ")">> }

\* the places of an assignment "target = 1": a statement, an initializer,
\* a statement of a block, of a function body and of a loop, an argument
AssignContexts(target) ==
    With(target \o <<"=", "1">>, LAMBDA assign :
      { assign \o <<";">>,
        <<"var", "x", "=">> \o assign \o <<";">>,
        <<"{">> \o assign \o <<";", "}">>,
        <<"var", "f", "=", "function", "(", ")", "{">> \o assign \o <<";", "}", ";">>,
        <<"while", "(", "a", ")", "{">> \o assign \o <<";", "}">>,
        <<"f", "(">> \o assign \o <<")", ";">> })

\* the texts that assign to something other than an identifier
AssignTexts == UNION {AssignContexts(target) : target \in AssignTargets}

InitParser ==
    /\ code = << >>
    /\ pc = "new"
    /\ program = Program(<< >>)
    /\ errors = << >>
    /\ ok = TRUE
    /\ heap = NewGlobalEnvironment
    /\ result = Nil
    /\ stmt = 0
    /\ count = 0
    /\ trace = << >>
    /\ lexer = NewLexer(<< >>)
    /\ tok = NoToken
    /\ parser = NewParser(<< >>)

\* p := parser.New(input), for one of the texts
CallNew ==
    /\ pc = "new"
    /\ \E words \in WordSeqs(MaxWords) \cup ParserTexts \cup AssignTexts :
         /\ code' = Text(words)
         /\ parser' = NewParser(Text(words))
    /\ pc' = "parsing"
    /\ UNCHANGED <<program, errors, ok, heap, result, stmt, count, trace, lexer, tok>>

\* faulty loop body: the p.nextToken() that ends an iteration is missing
ParseStatementStepNoAdvance ==
    /\ pc = "parsing"
    /\ ~currentTokenIs(parser, EOF)
    /\ count <= Len(code)
    /\ With(parseStatement(parser), LAMBDA r :
         /\ parser' = r.p
         /\ errors' = Errors(r.p)
         /\ program' = IF r.node # NilNode
                       THEN [program EXCEPT !.Statements = Append(@, r.node)]
                       ELSE program)
    /\ count' = count + 1
    /\ UNCHANGED <<code, pc, ok, heap, result, stmt, trace, lexer, tok>>

\* one iteration of the loop of ParseProgram: stmt := p.parseStatement(),
\* append it unless it is nil, p.nextToken().  Every iteration takes at
\* least one token of a text that has at most one token per byte.
ParseStatementStep ==
    /\ pc = "parsing"
    /\ ~currentTokenIs(parser, EOF)
    /\ count <= Len(code)
    /\ With(parseStatement(parser), LAMBDA r :
         /\ parser' = nextToken(r.p)
         /\ errors' = Errors(r.p)
         /\ program' = IF r.node # NilNode
                       THEN [program EXCEPT !.Statements = Append(@, r.node)]
                       ELSE program)
    /\ count' = count + 1
    /\ UNCHANGED <<code, pc, ok, heap, result, stmt, trace, lexer, tok>>

\* the loop ends at the EOF token and ParseProgram returns the program
ParseProgramEnd ==
    /\ pc = "parsing"
    /\ currentTokenIs(parser, EOF)
    /\ pc' = "parsed"
    /\ UNCHANGED <<code, program, errors, ok, heap, result, stmt, count, trace,
                   lexer, tok, parser>>

NextParser ==
    \/ CallNew
    \/ ParseStatementStep
    \/ ParseProgramEnd

SpecParser == InitParser /\ [][NextParser]_vars

(***************************************************************************)
(* runCode (main.go): parse the whole text, report the parse errors or     *)
(* evaluate the tree.                                                      *)
(***************************************************************************)
ArithmeticOperands == {"2", "3", "4"}

ArithmeticOperators == {"+", "-", "*", "/"}

\* the expressions  a op b op ... with n operators, as word sequences
RECURSIVE Arithmetic(_)
Arithmetic(n) ==
    IF n = 0 THEN {<<a>> : a \in ArithmeticOperands}
    ELSE {e \o <<op, a>> : e \in Arithmetic(n - 1), op \in ArithmeticOperators,
                           a \in ArithmeticOperands}

Programs ==
    { <<"var", "x", "=", "5", ";", "{", "x", "=", "10", ";", "}", "x", ";">>,
      <<"var", "x", "=", "5", ";", "{", "var", "x", "=", "10", ";", "}", "x", ";">>,
      <<"{", "var", "y", "=", "1", ";", "}", "y", ";">>,
      <<"{", "y", "=", "5", ";", "}", "y", ";">>,
      <<"var", "x", "=", "1", ";", "return", "x", "+", "1", ";", "x", "=", "3", ";">>,
      <<"9", ";", "return", "2", "*", "5", ";", "9", ";">>,
      <<"return", "10", ";", "9", ";">>,
      <<"return", "7", ";", "print", "(", "1", ")", ";">>,
      <<"var", "o", "=", "{", "a", ":", "1", ",", "b", ":", "2", "}", ";",
        "o", ".", "a", "+", "o", ".", "b", ";">>,
      <<"while", "(", "true", ")", "{", "}">>,
      <<"(", "2", "+", "3", ")", "*", "4", ";">>,
      <<"10", "-", "2", "-", "3", ";">>,
      <<"var", "o", "=", "{", "a", ":", "x", "=", "1", ",", "b", ":", "x", "=", "2",
        "}", ";", "x", ";">>,
      << >> }

\* texts the parser reports errors for
BadPrograms ==
    { <<"var", "x", "=", ";">>,
      <<"var", "x", "=", "5", ";", "var", "y", "=", ";">>,
      <<"var", "x", "=", "5", ";", "var", "=", "1", ";">>,
      <<"x", "=", "1", ";", "5", "=", "x", ";">>,
      <<"x", "=", "1", ";", "(", "x", "+", "2", ";">>,
      <<"x", "=", "1", ";", "x", "+", ";">>,
      <<"x", "=", "1", ";", "if", "x", "{", "}">>,
      <<"x", "=", "1", ";", "while", "(", "x", "{", "}">>,
      <<"x", "=", "1", ";", "return", ";">>,
      <<"print", "(", "1", ")", ";", "var", "f", "=", "function", "(", "1", ")",
        "{", "}", ";">>,
      <<"print", "(", "1", ",", ")", ";">>,
      <<"x", "=", "1", ";", "@">> }

Sources ==
    (UNION {Arithmetic(n) : n \in 1..MaxOperators}) \cup Programs \cup BadPrograms

Init ==
    /\ code \in {Text(words) : words \in Sources}
    /\ pc = "start"
    /\ program = NilNode
    /\ errors = << >>
    /\ ok = TRUE
    /\ heap = NewGlobalEnvironment
    /\ result = Nil
    /\ stmt = 0
    /\ count = 0
    /\ trace = << >>
    /\ lexer = NewLexer(<< >>)
    /\ tok = NoToken
    /\ parser = NewParser(<< >>)

\* p := parser.New(code); program := p.ParseProgram()
Parse ==
    /\ pc = "start"
    /\ With(ParseProgram(NewParser(code)), LAMBDA r :
           /\ program' = r.node
           /\ errors' = Errors(r.p))
    /\ pc' = "parsed"
    /\ UNCHANGED <<code, ok, heap, result, stmt, count, trace, lexer, tok, parser>>

\* faulty hasErrors: the errors are ignored
ignoreErrors(errs) == FALSE

\* the test of runCode: len(p.Errors()) > 0
hasErrors(errs) == Len(errs) > 0

\* the errors are printed and runCode returns false
ReportErrors ==
    /\ pc = "parsed"
    /\ hasErrors(errors)
    /\ ok' = FALSE
    /\ pc' = "done"
    /\ UNCHANGED <<code, program, errors, heap, result, stmt, count, trace,
                   lexer, tok, parser>>

\* evaluator.Eval(program, env); return true.  A run that panics ends the
\* process with the effects it had; a run that never ends never returns.
Evaluate(ord) ==
    /\ pc = "parsed"
    /\ ~hasErrors(errors)
    /\ With(Eval(program, Global, StartState(heap, ord)), LAMBDA r :
         With(Collect(r.st.heap, r.val), LAMBDA kept :
           /\ ~r.st.diverged
           /\ heap' = kept.heap
           /\ result' = kept.val
           /\ trace' = r.st.trace
           /\ pc' = IF r.st.panicked THEN "panic" ELSE "done"
           /\ ok' = TRUE))
    /\ count' = Len(program.Statements)
    /\ UNCHANGED <<code, program, errors, stmt, lexer, tok, parser>>

(***************************************************************************)
(* runCode on the programs "left operator right;" whose operands are one   *)
(* expression of every runtime variant, from the tree ParseProgram returns *)
(* for them.                                                               *)
(***************************************************************************)
Operands ==
    << NumberLiteral(0, 1),                                   \* 0
       NumberLiteral(10, 1),                                  \* 10
       NumberLiteral(5, 1),                                   \* 5
       PrefixExpression(<<"-">>, NumberLiteral(3, 1)),        \* -3
       PrefixExpression(<<"-">>, NumberLiteral(0, 1)),        \* -0
       StringLiteral(<<"5">>),                                \* "5"
       StringLiteral(<< >>),                                  \* ""
       StringLiteral(<<"a", "b">>),                           \* "ab"
       BooleanLiteral(TRUE),                                  \* true
       BooleanLiteral(FALSE),                                 \* false
       Identifier(<<"u">>),                                   \* u, unbound: absent
       ObjectLiteral(<< >>),                                  \* {}
       ArrayLiteral(<< >>),                                   \* []
       FunctionLiteral(<< >>, BlockStatement(<< >>)) >>       \* function() {}

InfixOperators ==
    {<<"+">>, <<"-">>, <<"*">>, <<"/">>, <<"=", "=">>, <<"!", "=">>, <<"<">>, <<">">>,
     <<"<", "=">>, <<">", "=">>}

InfixProgram(operator, i, j) ==
    Program(<<ExpressionStatement(InfixExpression(operator, Operands[i], Operands[j]))>>)

InitInfix ==
    /\ code = << >>
    /\ pc = "parsed"
    /\ \E operator \in InfixOperators : \E i, j \in DOMAIN Operands :
         program = InfixProgram(operator, i, j)
    /\ errors = << >>
    /\ ok = TRUE
    /\ heap = NewGlobalEnvironment
    /\ result = Nil
    /\ stmt = 0
    /\ count = 0
    /\ trace = << >>
    /\ lexer = NewLexer(<< >>)
    /\ tok = NoToken
    /\ parser = NewParser(<< >>)

NextInfix == \E ord \in {<< >>} : Evaluate(ord)

SpecInfix == InitInfix /\ [][NextInfix]_vars

(***************************************************************************)
(* runCode on the programs                                                 *)
(*   var o = <value>; var t = JSON.parse(JSON.stringify(o)); <probe>;      *)
(* whose value is a number, a boolean, the absent value, a string or an    *)
(* object of them, and whose probe is t == o or t.a or t.b.                *)
(***************************************************************************)
Primitives ==
    << NumberLiteral(0, 1),                                   \* 0
       NumberLiteral(1, 1),                                   \* 1
       NumberLiteral(10, 1),                                  \* 10
       PrefixExpression(<<"-">>, NumberLiteral(3, 1)),        \* -3
       NumberLiteral(5, 2),                                   \* 2.5
       PrefixExpression(<<"-">>, NumberLiteral(1, 4)),        \* -0.25
       BooleanLiteral(TRUE),                                  \* true
       BooleanLiteral(FALSE),                                 \* false
       Identifier(<<"u">>),                                   \* u, unbound: absent
       StringLiteral(<<"B", "o", "b">>) >>                    \* "Bob"

\* the values: the primitives, {}, {a: p}, {a: p, b: q}, {a: {b: p}}
RoundTripValues ==
    Primitives
    \o <<ObjectLiteral(<< >>)>>
    \o [i \in DOMAIN Primitives |-> ObjectLiteral(<<"a">> :> Primitives[i])]
    \o [i \in DOMAIN Primitives |->
          ObjectLiteral(<<"a">> :> Primitives[i]
                        @@ <<"b">> :> Primitives[Len(Primitives) + 1 - i])]
    \o [i \in DOMAIN Primitives |->
          ObjectLiteral(<<"a">> :> ObjectLiteral(<<"b">> :> Primitives[i]))]

Probes ==
    << InfixExpression(<<"=", "=">>, Identifier(<<"t">>), Identifier(<<"o">>)),
       PropertyAccess(Identifier(<<"t">>), <<"a">>),
       PropertyAccess(Identifier(<<"t">>), <<"b">>) >>

RoundTripProgram(i, j) ==
    Program(<<VarStatement(<<"o">>, RoundTripValues[i]),
              VarStatement(<<"t">>,
                  JSONCall(<<"p", "a", "r", "s", "e">>,
                      <<JSONCall(<<"s", "t", "r", "i", "n", "g", "i", "f", "y">>,
                                 <<Identifier(<<"o">>)>>)>>)),
              ExpressionStatement(Probes[j])>>)

InitJSON ==
    /\ code = << >>
    /\ pc = "parsed"
    /\ \E i \in DOMAIN RoundTripValues : \E j \in DOMAIN Probes :
         program = RoundTripProgram(i, j)
    /\ errors = << >>
    /\ ok = TRUE
    /\ heap = NewGlobalEnvironment
    /\ result = Nil
    /\ stmt = 0
    /\ count = 0
    /\ trace = << >>
    /\ lexer = NewLexer(<< >>)
    /\ tok = NoToken
    /\ parser = NewParser(<< >>)

NextJSON == \E ord \in RangeOrders : Evaluate(ord)

SpecJSON == InitJSON /\ [][NextJSON]_vars

(***************************************************************************)
(* runCode on the programs that compare a value with itself:               *)
(*   var v = <value>; v <operator> v;                                      *)
(*   var v = <value>; var w = v; v <operator> w;                           *)
(* with a value of every runtime variant, from their trees.                *)
(***************************************************************************)
Values ==
    Operands
    \o << NumberLiteral(5, 2),                                            \* 2.5
          ObjectLiteral(<<"a">> :> NumberLiteral(1, 1)),                  \* {a: 1}
          ArrayLiteral(<<NumberLiteral(1, 1)>>),                          \* [1]
          Returning(<<(<<"x">>)>>, Identifier(<<"x">>)),   \* function(x) { return x; }
          Identifier(<<"J", "S", "O", "N">>),                             \* JSON
          PropertyAccess(Identifier(<<"J", "S", "O", "N">>),
                         <<"p", "a", "r", "s", "e">>),                    \* JSON.parse
          JSONCall(<<"p", "a", "r", "s", "e">>,
                   <<StringLiteral(<<"{", "}">>)>>),                      \* JSON.parse("{}")
          JSONCall(<<"p", "a", "r", "s", "e">>,
                   <<StringLiteral(<<"[", "]">>)>>) >>                    \* JSON.parse("[]")

SelfProgram(operator, i) ==
    Program(<<VarStatement(<<"v">>, Values[i]),
              ExpressionStatement(
                  InfixExpression(operator, Identifier(<<"v">>), Identifier(<<"v">>)))>>)

AliasProgram(operator, i) ==
    Program(<<VarStatement(<<"v">>, Values[i]),
              VarStatement(<<"w">>, Identifier(<<"v">>)),
              ExpressionStatement(
                  InfixExpression(operator, Identifier(<<"v">>), Identifier(<<"w">>)))>>)

InitSelf ==
    /\ code = << >>
    /\ pc = "parsed"
    /\ \E operator \in InfixOperators : \E i \in DOMAIN Values :
         program \in {SelfProgram(operator, i), AliasProgram(operator, i)}
    /\ errors = << >>
    /\ ok = TRUE
    /\ heap = NewGlobalEnvironment
    /\ result = Nil
    /\ stmt = 0
    /\ count = 0
    /\ trace = << >>
    /\ lexer = NewLexer(<< >>)
    /\ tok = NoToken
    /\ parser = NewParser(<< >>)

SpecSelf == InitSelf /\ [][NextInfix]_vars

Next ==
    \/ Parse
    \/ ReportErrors
    \/ \E ord \in RangeOrders : Evaluate(ord)

Spec == Init /\ [][Next]_vars

(***************************************************************************)
(* Properties.                                                             *)
(***************************************************************************)
Bound(h, name) == name \in DOMAIN h[Global].store

IsClosure(h, name) == Bound(h, name) /\ h[Global].store[name].t = "fn"

\* the value of c in the scope a counter closure captured
Captured(h, fn) == h[fn.Env].store[<<"c">>]

Evaluated == count' = count + 1

\* C1: an assignment to a name that is not bound in the current scope but is
\* bound in an enclosing one sets the binding of the nearest enclosing scope
\* that has it, changes no other binding and creates none; after
\* var x = 5; the block { x = 10; } leaves the global x at 10.
C1_AssignNearestEnclosing ==
    [][Evaluated =>
        /\ \A i \in DOMAIN trace' :
             LET ev == trace'[i]
             IN  (/\ ev.op = "Update"
                  /\ ev.name \notin DOMAIN ev.pre[ev.env].store
                  /\ Binder(ev.pre, ev.env, ev.name) # NoEnv)
                 => LET b == Binder(ev.pre, ev.env, ev.name)
                    IN  /\ DOMAIN ev.post = DOMAIN ev.pre
                        /\ ev.post[b].store[ev.name] = ev.val
                        /\ \A a \in DOMAIN ev.pre :
                             /\ ev.post[a].outer = ev.pre[a].outer
                             /\ DOMAIN ev.post[a].store = DOMAIN ev.pre[a].store
                             /\ \A n \in DOMAIN ev.pre[a].store :
                                  <<a, n>> # <<b, ev.name>>
                                  => ev.post[a].store[n] = ev.pre[a].store[n]
        /\ (stmt' = Index(BlockAssignsX) /\ Bound(heap, <<"x">>))
           => heap' = [heap EXCEPT ![Global].store[<<"x">>] = Float(10)]
        /\ (stmt' = Index(NestedAssignsX) /\ Bound(heap, <<"x">>))
           => (heap' = heap /\ result' = Float(3))
    ]_vars

\* the block { x = 10; } has set the x of the global scope from its own scope
C1_Witness ==
    /\ stmt = Index(BlockAssignsX)
    /\ Bound(heap, <<"x">>)
    /\ heap[Global].store[<<"x">>] = Float(10)
    /\ \E i \in DOMAIN trace :
         /\ trace[i].op = "Update"
         /\ trace[i].env # Global
         /\ trace[i].pre[Global].store[<<"x">>] = Float(5)
         /\ Binder(trace[i].pre, trace[i].env, <<"x">>) = Global

\* C2: a closure works on the scope it was created in, not on a copy: what a
\* call changes in a captured variable is seen by the next call of the closure
\* and by the other closures of that scope; the calls of the counter yield
\* 1, 2, 3.
C2_ClosureByReference ==
    [][Evaluated =>
        /\ (stmt' = Index(CallK) /\ IsClosure(heap, <<"k">>))
           => /\ result' = NumAdd(Captured(heap, heap[Global].store[<<"k">>]), Float(1))
              /\ Captured(heap', heap'[Global].store[<<"k">>]) = result'
        /\ (stmt' = Index(CallKThrice) /\ IsClosure(heap, <<"k">>))
           => LET c == Captured(heap, heap[Global].store[<<"k">>])
              IN  /\ result' = NumAdd(NumMul(NumAdd(c, Float(1)), Float(100)),
                                      NumAdd(NumMul(NumAdd(c, Float(2)), Float(10)),
                                             NumAdd(c, Float(3))))
                  /\ Captured(heap', heap'[Global].store[<<"k">>]) = NumAdd(c, Float(3))
        /\ (stmt' = Index(CallQA) /\ Bound(heap, <<"q">>)
            /\ heap[Global].store[<<"q">>].t = "obj")
           => /\ result' = NumAdd(Captured(heap, heap[Global].store[<<"q">>].fields[<<"a">>]),
                                  Float(1))
              /\ Captured(heap', heap'[Global].store[<<"q">>].fields[<<"b">>]) = result'
        /\ (stmt' = Index(CallQB) /\ Bound(heap, <<"q">>)
            /\ heap[Global].store[<<"q">>].t = "obj")
           => result' = Captured(heap, heap[Global].store[<<"q">>].fields[<<"a">>])
    ]_vars

\* the third call of the counter has returned 3
C2_Witness ==
    /\ stmt = Index(CallK)
    /\ IsClosure(heap, <<"k">>)
    /\ result = Float(3)
    /\ Captured(heap, heap[Global].store[<<"k">>]) = Float(3)

\* C3: a return executed in a function body, at any depth of blocks, ifs and
\* loops, ends the call at once with its value: between the return and the
\* end of the call only scopes are left, and no statement of the body runs
\* after it; the function with return 7 inside while (true) yields 7.
C3_ReturnEndsCall ==
    /\ \A i \in DOMAIN trace :
         (trace[i].op = "Return" /\ trace[i].call # NoEnv)
         => /\ \A j \in DOMAIN trace :
                 j > i => ~(trace[j].op = "Stmt" /\ trace[j].call = trace[i].call)
            /\ \E j \in DOMAIN trace :
                 /\ j > i
                 /\ trace[j].op = "CallEnd"
                 /\ trace[j].call = trace[i].call
                 /\ trace[j].val = trace[i].val
                 /\ \A m \in (i + 1)..(j - 1) : trace[m].op = "BlockEnd"
    /\ (stmt = Index(CallW) /\ IsClosure(heap, <<"w">>)) => result = Float(7)
    /\ (stmt = Index(DeclareR) /\ IsClosure(heap, <<"h">>))
       => heap[Global].store[<<"r">>] = Float(7)

\* h has returned 7 from the if inside its loop
C3_Witness ==
    /\ stmt = Index(DeclareR)
    /\ IsClosure(heap, <<"h">>)
    /\ heap[Global].store[<<"r">>] = Float(7)
    /\ \E i, j \in DOMAIN trace :
         /\ i + 3 < j
         /\ trace[i].op = "Return"
         /\ trace[i].call # NoEnv
         /\ trace[j].op = "CallEnd"
         /\ trace[j].call = trace[i].call

RECURSIVE HasReturnValue(_)
HasReturnValue(v) ==
    \/ v.t = "return"
    \/ v.t = "obj" /\ \E key \in DOMAIN v.fields : HasReturnValue(v.fields[key])

NoReturnValueIn(h) ==
    \A e \in DOMAIN h : \A n \in DOMAIN h[e].store : ~HasReturnValue(h[e].store[n])

NotSpace(ch) == ch # " "

\* the words of a text whose words are single bytes
Words(text) == SelectSeq(text, NotSpace)

IsArithmetic(text) ==
    LET w == Words(text)
    IN  /\ Len(w) >= 3
        /\ Len(w) % 2 = 1
        /\ \A i \in DOMAIN w :
             IF i % 2 = 1 THEN w[i] \in ArithmeticOperands
             ELSE w[i] \in ArithmeticOperators
        /\ text = Text(w)

\* the value of  a op b op ...  by the school rule: the runs of * and / are
\* folded from the left first, then the + and - from the left
RECURSIVE FoldProduct(_, _, _)
FoldProduct(w, i, acc) ==
    IF i < Len(w) /\ w[i] \in {"*", "/"}
    THEN FoldProduct(w, i + 2,
                     IF w[i] = "*" THEN NumMul(acc, Float(DigitValue[w[i + 1]]))
                     ELSE NumDiv(acc, Float(DigitValue[w[i + 1]])))
    ELSE [val |-> acc, i |-> i]

RECURSIVE FoldSum(_, _, _)
FoldSum(w, i, acc) ==
    IF i >= Len(w) THEN acc
    ELSE LET term == FoldProduct(w, i + 2, Float(DigitValue[w[i + 1]]))
         IN  FoldSum(w, term.i,
                     IF w[i] = "+" THEN NumAdd(acc, term.val)
                     ELSE NumSub(acc, term.val))

Conventional(w) ==
    LET term == FoldProduct(w, 2, Float(DigitValue[w[1]]))
    IN  FoldSum(w, term.i, term.val)

\* C5: in an expression of numbers and + - * /, the * and / bind tighter than
\* the + and -, and operators of one level group from the left;
\* 2 + 3 * 4 is 14.
C5_ProductBindsTighter ==
    /\ (pc = "done" /\ IsArithmetic(code)) => result = Conventional(Words(code))
    /\ (pc = "done" /\ code = Text(<<"2", "+", "3", "*", "4">>)) => result = Float(14)

\* 2 + 3 * 4 has been evaluated to 14
C5_Witness ==
    /\ pc = "done"
    /\ code = Text(<<"2", "+", "3", "*", "4">>)
    /\ program.Statements[1].Expression.Operator = <<"+">>
    /\ result = Float(14)

\* C6: the scope of a call is a child of the scope the function literal was
\* evaluated in, never of the caller's: g, which declares its own x and calls
\* f, gets the global x from f.
C6_LexicalScoping ==
    /\ \A i \in DOMAIN trace :
         trace[i].op = "Call" => trace[i].outer = trace[i].fn.Env
    /\ (stmt = Index(CallG) /\ IsClosure(heap, <<"f">>) /\ IsClosure(heap, <<"g">>))
       => result = IF Bound(heap, <<"x">>) THEN heap[Global].store[<<"x">>] ELSE Nil

\* f, called inside g where x is 2, has returned the global x
C6_Witness ==
    /\ stmt = Index(CallG)
    /\ IsClosure(heap, <<"f">>)
    /\ IsClosure(heap, <<"g">>)
    /\ result = Float(5)
    /\ \E i \in DOMAIN trace :
         /\ trace[i].op = "Call"
         /\ trace[i].in # trace[i].outer
         /\ trace[i].in # Global
         /\ Get(trace[i].pre, trace[i].in, <<"x">>).val = Float(2)

\* C7: runCode evaluates nothing of a text the parser reported an error for:
\* no statement has an effect and runCode returns false.
C7_NoEvalAfterParseError ==
    errors # << >>
    => /\ trace = << >>
       /\ heap = NewGlobalEnvironment
       /\ result = Nil
       /\ count = 0
       /\ pc \in {"parsed", "done"}
       /\ pc = "done" => ok = FALSE

\* runCode has returned false for a text whose first statement is valid
C7_Witness ==
    /\ pc = "done"
    /\ errors # << >>
    /\ ok = FALSE
    /\ Len(program.Statements) > 1
    /\ program.Statements[1].type = "ExpressionStatement"
    /\ program.Statements[1].Expression.type = "AssignExpression"

\* C8: a var declaration writes its name in the current scope and nothing
\* else: a declaration in a block or in a function body leaves the binding of
\* the same name in the enclosing scopes as it was.
C8_VarWritesCurrentScope ==
    [][Evaluated =>
        /\ \A i \in DOMAIN trace' :
             LET ev == trace'[i]
             IN  ev.op = "Set"
                 => /\ DOMAIN ev.post = DOMAIN ev.pre
                    /\ \A a \in DOMAIN ev.pre : a # ev.env => ev.post[a] = ev.pre[a]
                    /\ ev.post[ev.env].outer = ev.pre[ev.env].outer
                    /\ DOMAIN ev.post[ev.env].store
                         = DOMAIN ev.pre[ev.env].store \cup {ev.name}
                    /\ ev.post[ev.env].store[ev.name] = ev.val
                    /\ \A n \in DOMAIN ev.pre[ev.env].store :
                         n # ev.name
                         => ev.post[ev.env].store[n] = ev.pre[ev.env].store[n]
        /\ stmt' = Index(BlockDeclaresX) => (heap' = heap /\ result' = Float(7))
        /\ (stmt' = Index(CallS) /\ IsClosure(heap, <<"s">>))
           => (heap' = heap /\ result' = Float(2))
    ]_vars

\* var x = 7 in a block has shadowed the global x, which is still 5
C8_Witness ==
    /\ stmt = Index(BlockDeclaresX)
    /\ Bound(heap, <<"x">>)
    /\ heap[Global].store[<<"x">>] = Float(5)
    /\ result = Float(7)
    /\ \E i \in DOMAIN trace :
         /\ trace[i].op = "Set"
         /\ trace[i].name = <<"x">>
         /\ trace[i].env # Global
         /\ Binder(trace[i].pre, trace[i].pre[trace[i].env].outer, <<"x">>) = Global

\* C9: a block runs its statements in a new scope whose parent is the scope
\* of the block statement, and the statements of the program run in the scope
\* given to it: what a block declares is unbound after the block, what the
\* program declares is bound in the global scope.
C9_BlockScope ==
    [][Evaluated =>
        /\ trace'[1].op = "Stmt"
        /\ trace'[1].env = Global
        /\ \A j \in DOMAIN trace' :
             LET ev == trace'[j]
             IN  ev.op = "BlockEnd"
                 => /\ ev.env = Len(ev.pre) + 1
                    /\ ev.post[ev.env].outer = ev.in
                    /\ \E i \in 1..(j - 1) :
                         /\ trace'[i].op = "New"
                         /\ trace'[i].env = ev.env
                         /\ trace'[i].in = ev.in
                         /\ trace'[i + 1].op = "Stmt" => trace'[i + 1].env = ev.env
                         /\ \A m \in (i + 1)..(j - 1) :
                              trace'[m].op = "Stmt" => trace'[m].env >= ev.env
                    /\ \A a \in DOMAIN ev.pre :
                         DOMAIN ev.post[a].store = DOMAIN ev.pre[a].store
        /\ stmt' = Index(BlockDeclaresY) => heap' = heap
        /\ (stmt' = Index(ReadY) /\ ~Bound(heap, <<"y">>)) => result' = Nil
        /\ stmt' = Index(DeclareX)
           => heap' = [heap EXCEPT ![Global].store = (<<"x">> :> Float(5)) @@ @]
    ]_vars

\* the block has declared y in its own scope and y is unbound after it
C9_Witness ==
    /\ stmt = Index(BlockDeclaresY)
    /\ ~Bound(heap, <<"y">>)
    /\ Len(heap) = 1
    /\ \E i \in DOMAIN trace :
         /\ trace[i].op = "Set"
         /\ trace[i].name = <<"y">>
         /\ trace[i].env = 2
         /\ trace[i].post[2].outer = Global
         /\ <<"y">> \in DOMAIN trace[i].post[2].store

\* C10: an assignment to a name bound in no scope of the chain binds it in the
\* current scope and in no other: the binding made in a block is gone with
\* the block, the one made by a statement of the program is global.
C10_AssignUnboundCurrentScope ==
    [][Evaluated =>
        /\ \A i \in DOMAIN trace' :
             LET ev == trace'[i]
             IN  (ev.op = "Update" /\ Binder(ev.pre, ev.env, ev.name) = NoEnv)
                 => /\ DOMAIN ev.post = DOMAIN ev.pre
                    /\ \A a \in DOMAIN ev.pre : a # ev.env => ev.post[a] = ev.pre[a]
                    /\ ev.post[ev.env].outer = ev.pre[ev.env].outer
                    /\ DOMAIN ev.post[ev.env].store
                         = DOMAIN ev.pre[ev.env].store \cup {ev.name}
                    /\ ev.post[ev.env].store[ev.name] = ev.val
                    /\ \A n \in DOMAIN ev.pre[ev.env].store :
                         ev.post[ev.env].store[n] = ev.pre[ev.env].store[n]
        /\ (stmt' = Index(BlockAssignsY) /\ ~Bound(heap, <<"y">>)) => heap' = heap
        /\ (stmt' = Index(AssignY) /\ ~Bound(heap, <<"y">>))
           => heap' = [heap EXCEPT ![Global].store = (<<"y">> :> Float(4)) @@ @]
    ]_vars

\* y = 5 in a block, with y unbound, has bound y in the scope of the block only
C10_Witness ==
    /\ stmt = Index(BlockAssignsY)
    /\ ~Bound(heap, <<"y">>)
    /\ result = Float(5)
    /\ \E i \in DOMAIN trace :
         /\ trace[i].op = "Update"
         /\ trace[i].name = <<"y">>
         /\ trace[i].env # Global
         /\ Binder(trace[i].pre, trace[i].env, <<"y">>) = NoEnv
         /\ <<"y">> \in DOMAIN trace[i].post[trace[i].env].store
         /\ <<"y">> \notin DOMAIN trace[i].post[Global].store

IsArray(h, name) == Bound(h, name) /\ h[Global].store[name].t = "array"

\* the elements a script reads through the name
ElementsOf(h, name) == h[h[Global].store[name].ref].Elements

\* the names of the program that hold arrays
ArrayNames == {<<"a">>, <<"b">>}

\* the value of c that the closure bound to k finds in the scopes it captured
Kept(h) ==
    LET g == Get(h, h[Global].store[<<"k">>].Env, <<"c">>)
    IN  IF g.ok THEN g.val ELSE Nil

\* the ArrayReference statement i pushes onto when it runs in heap h, through
\* a name, a parameter (e(b)) or the variable a closure captured (k()); 0: none
PushedOnto(h, i) ==
    CASE i = PushA /\ IsArray(h, <<"a">>) -> h[Global].store[<<"a">>].ref
      [] i = PushB /\ IsArray(h, <<"b">>) -> h[Global].store[<<"b">>].ref
      [] i = CallEB /\ IsClosure(h, <<"e">>) /\ IsArray(h, <<"b">>) ->
           h[Global].store[<<"b">>].ref
      [] i = CallKept /\ IsClosure(h, <<"k">>) /\ Kept(h).t = "array" -> Kept(h).ref
      [] OTHER -> 0

\* the values statement i pushes
PushedBy(i) ==
    CASE i = PushA -> <<Float(3)>>
      [] i = PushB -> <<Float(4), Float(5)>>
      [] i = CallEB -> <<Float(9)>>
      [] i = CallKept -> <<Float(8)>>
      [] OTHER -> << >>

Evaluated1 == program.Statements[1].Expression

\* the operand is the number 0, written 0 or -0
IsZeroLiteral(node) ==
    \/ node.type = "NumberLiteral" /\ node.Value = Float(0)
    \/ /\ node.type = "PrefixExpression"
       /\ node.Right.type = "NumberLiteral"
       /\ node.Right.Value = Float(0)

\* a float64 that is neither an infinity nor not a number
IsFinite(v) == v.t = "num" /\ v.d > 0

\* C12: division by the number 0 evaluates to 0 for every left operand: the
\* run ends normally and its result is the number 0, not an infinity and not
\* a NaN.
C12_DivisionByZeroIsZero ==
    (pc \in {"done", "panic"} /\ Evaluated1.Operator = <<"/">>
     /\ IsZeroLiteral(Evaluated1.Right))
    => (pc = "done" /\ ok /\ IsFinite(result) /\ result = Float(0))

\* 10 / 0; has been evaluated
C12_Witness ==
    /\ pc = "done"
    /\ Evaluated1.Operator = <<"/">>
    /\ Evaluated1.Left.type = "NumberLiteral"
    /\ Evaluated1.Left.Value = Float(10)
    /\ IsZeroLiteral(Evaluated1.Right)
    /\ result = Float(0)

\* the variant of the runtime value an operand of Operands evaluates to
Variant(node) ==
    CASE node.type \in {"NumberLiteral", "PrefixExpression"} -> "number"
      [] node.type = "StringLiteral" -> "string"
      [] node.type = "BooleanLiteral" -> "boolean"
      [] node.type = "Identifier" -> "absent"
      [] node.type = "ObjectLiteral" -> "object"
      [] node.type = "ArrayLiteral" -> "array"
      [] node.type = "FunctionLiteral" -> "function"

\* C13: equality never coerces across variants: for operands of different
\* variants a == b is false and a != b is true.
C13_EqualityNeverCoerces ==
    (pc \in {"done", "panic"} /\ Variant(Evaluated1.Left) # Variant(Evaluated1.Right))
    => /\ Evaluated1.Operator = <<"=", "=">> => (pc = "done" /\ result = Bool(FALSE))
       /\ Evaluated1.Operator = <<"!", "=">> => (pc = "done" /\ result = Bool(TRUE))

\* 5 == "5"; has been evaluated and is false
C13_Witness ==
    /\ pc = "done"
    /\ Evaluated1.Operator = <<"=", "=">>
    /\ Evaluated1.Left.type = "NumberLiteral"
    /\ Evaluated1.Left.Value = Float(5)
    /\ Evaluated1.Right.type = "StringLiteral"
    /\ Evaluated1.Right.Value = <<"5">>
    /\ result = Bool(FALSE)

\* the number statement i indexes the array a with
IndexOf(i) ==
    CASE i = FirstOfA -> Float(0)
      [] i = ThirdOfA -> Float(2)
      [] i = MinusOneOfA -> Float(-1)
      [] i = MinusHalfOfA -> Num(-1, 2)
      [] i = TwoAndHalfOfA -> Num(5, 2)

IndexStatements == {FirstOfA, ThirdOfA, MinusOneOfA, MinusHalfOfA, TwoAndHalfOfA}

\* C14: indexing an array with a number that is negative or not less than the
\* length of the array evaluates to the absent value.
C14_IndexOutOfRangeIsAbsent ==
    [][(/\ Evaluated
        /\ stmt' \in IndexStatements
        /\ IsArray(heap, <<"a">>)
        /\ \/ NumLess(IndexOf(stmt'), Float(0))
           \/ ~NumLess(IndexOf(stmt'), Float(Len(ElementsOf(heap, <<"a">>)))))
       => result' = Nil
    ]_vars

\* the text holds a declaration "var <name> = ;": the byte at k is its '='
DeclaresWithoutValueAt(text, k) ==
    /\ k >= 7 /\ k + 2 <= Len(text)
    /\ (k = 7 \/ text[k - 7] = " ")
    /\ SubSeq(text, k - 6, k - 3) = <<"v", "a", "r", " ">>
    /\ isLetter(text[k - 2])
    /\ SubSeq(text, k - 1, k + 2) = <<" ", "=", " ", ";">>

DeclaresWithoutValue(text) ==
    \E k \in DOMAIN text : DeclaresWithoutValueAt(text, k)

\* C15: parsing a declaration with '=' and no initializer leaves a diagnostic
\* in the error list, and runCode does not accept the tree: nothing of it is
\* evaluated and runCode returns false.
C15_MissingInitializerIsReported ==
    (pc # "start" /\ DeclaresWithoutValue(code))
    => /\ Len(errors) >= 1
       /\ trace = << >>
       /\ pc \in {"parsed", "done"}
       /\ pc = "done" => ok = FALSE

\* var x = ; has been parsed: the tree holds the declaration of x without a
\* value, and the error list is not empty
C15_Witness ==
    /\ pc = "parsed"
    /\ code = Text(<<"var", "x", "=", ";">>)
    /\ Len(program.Statements) >= 1
    /\ program.Statements[1].type = "VarStatement"
    /\ program.Statements[1].Value = NilNode
    /\ errors # << >>

\* the call of a native function by its bare name, as a statement on its own
BareNativeCalls == {CallPrint, CallFetch}

\* the statement ran the native function named name and called no function
\* of the script
OnlyNative(name) ==
    /\ \E e \in DOMAIN trace : trace[e].op = "Native" /\ trace[e].name = name
    /\ \A e \in DOMAIN trace : trace[e].op # "Call"

\* C16: a call whose callee is a bare identifier naming a registered native
\* function (print, fetch) runs the native function whatever variable of that
\* name the scope chain binds: print(1) yields nil and fetch() yields the
\* error result of fetch, no script function is called, and inside
\* function(print) { return print(2); } the native print receives 2.
C16_RegistryBeforeVariables ==
    /\ stmt = CallPrint => OnlyNative("print") /\ result = Nil
    /\ stmt = CallFetch => OnlyNative("fetch") /\ result = Fetch(<< >>)
    /\ stmt = CallCaller /\ <<"g">> \in DOMAIN heap[Global].store =>
         \E e \in DOMAIN trace :
             /\ trace[e].op = "Native"
             /\ trace[e].name = "print"
             /\ trace[e].args = <<Float(2)>>

C16_Witness ==
    /\ stmt = CallPrint
    /\ <<"p", "r", "i", "n", "t">> \in DOMAIN heap[Global].store
    /\ heap[Global].store[<<"p", "r", "i", "n", "t">>].t = "fn"
    /\ OnlyNative("print")
    /\ result = Nil

\* the bytes that start an operator, a delimiter, a comment, a string, an
\* identifier or a number
StartsToken(ch) ==
    \/ ch \in DOMAIN TwoCharTokens
    \/ ch \in DOMAIN SingleCharTokens
    \/ ch \in {"/", "\""}
    \/ isLetter(ch)
    \/ isDigit(ch)

\* the lexer stands on a byte of the input, not past its end
OnInputByte(l) == l.position <= Len(l.input)

TokenTypes ==
    {EOF, ILLEGAL, IDENT, NUMBER, STRING_, SLASH} \cup {keywords[k] : k \in DOMAIN keywords}
    \cup {SingleCharTokens[c] : c \in DOMAIN SingleCharTokens}
    \cup UNION {{TwoCharTokens[c][1], TwoCharTokens[c][2]} : c \in DOMAIN TwoCharTokens}

\* C17: every NextToken call returns a token, and when the first byte after
\* the whitespace is a byte of the input that starts no operator, delimiter,
\* identifier, number, string or comment, the token is ILLEGAL with that
\* byte as its literal and the lexer goes on with the following byte.
C17_IllegalByteIsIllegalToken ==
    [][pc = "scanning" =>
         /\ tok'.Type \in TokenTypes
         /\ LET l == skipWhitespace(lexer)
            IN  OnInputByte(l) /\ ~StartsToken(l.ch) =>
                    /\ tok' = Token(ILLEGAL, <<l.ch>>)
                    /\ lexer' = readChar(l)]_vars

\* the same of every byte but the byte 0
NonZeroByteIsIllegalToken ==
    [][pc = "scanning" =>
         /\ tok'.Type \in TokenTypes
         /\ LET l == skipWhitespace(lexer)
            IN  OnInputByte(l) /\ ~StartsToken(l.ch) /\ l.ch # NUL =>
                    /\ tok' = Token(ILLEGAL, <<l.ch>>)
                    /\ lexer' = readChar(l)]_vars

\* the statements "var r = <a native call that fails>;"
FailingCalls == {NativeIndex(k) : k \in 7..13}

\* the value of the global variable r in the heap h
ROf(h) == h[Global].store[<<"r">>]

\* the value carries an error key
CarriesError(v) ==
    /\ v.t \in {"obj", "map"}
    /\ <<"e", "r", "r", "o", "r">> \in DOMAIN v.fields

\* r holds the result of a native call that failed
RHoldsError(h) == <<"r">> \in DOMAIN h[Global].store /\ CarriesError(ROf(h))

\* C18: a native function that fails (fetch, JSON.stringify or JSON.parse
\* called with a wrong number of arguments or an invalid argument) returns a
\* value carrying an error key, evaluation goes on with the next statement,
\* and r.error read from the result r is the message.
C18_NativeErrorIsReadable ==
    [][Evaluated =>
         /\ stmt' \in FailingCalls => CarriesError(ROf(heap')) /\ pc' = "running"
         /\ stmt' = ReadRError /\ RHoldsError(heap) =>
              result' = ROf(heap).fields[<<"e", "r", "r", "o", "r">>]]_vars

\* what does hold: the failing call returns a map with an error key whose
\* value is a string and the loop of evalProgram goes on, but r.error is the
\* absent value
NativeErrorIsReturned ==
    [][Evaluated =>
         /\ stmt' \in FailingCalls =>
              /\ ROf(heap').t = "map"
              /\ DOMAIN ROf(heap').fields = {<<"e", "r", "r", "o", "r">>}
              /\ ROf(heap').fields[<<"e", "r", "r", "o", "r">>].t = "str"
              /\ pc' = "running"
         /\ stmt' = ReadRError /\ RHoldsError(heap) => result' = Nil]_vars

\* the value of the global variable name
GlobalValue(name) == heap[Global].store[name]

IsPrimitive(v) == v.t \in {"nil", "num", "bool", "str"}

\* w is to the script what v is: equal if v is a primitive, and if v is an
\* object, property access on w gives field for field what v holds
RECURSIVE Equivalent(_, _, _)
Equivalent(h, v, w) ==
    IF v.t = "obj"
    THEN \A k \in DOMAIN v.fields : Equivalent(h, v.fields[k], propertyOf(h, w, k))
    ELSE equals(v, w)

\* the probe of the program that was run
Probe == program.Statements[3].Expression

\* C19: JSON.parse(JSON.stringify(v)) is to the script what v is, for every
\* number, boolean, string, absent value and object of them: t == o is true
\* for a primitive o, and t.a, t.b are the fields a, b of an object o.
C19_JSONRoundTrip ==
    (pc = "done" /\ Len(program.Statements) = 3) =>
        /\ Equivalent(heap, GlobalValue(<<"o">>), GlobalValue(<<"t">>))
        /\ (Probe.type = "InfixExpression" /\ IsPrimitive(GlobalValue(<<"o">>)))
           => result = Bool(TRUE)
        /\ (/\ Probe.type = "PropertyAccess"
            /\ GlobalValue(<<"o">>).t = "obj"
            /\ Probe.Property \in DOMAIN GlobalValue(<<"o">>).fields)
           => Equivalent(heap, GlobalValue(<<"o">>).fields[Probe.Property], result)

\* what does hold: a primitive comes back equal, the text of an object
\* comes back as a map with the keys of the object, and no property of that
\* map can be read
PrimitivesRoundTrip ==
    (pc = "done" /\ Len(program.Statements) = 3) =>
        /\ IsPrimitive(GlobalValue(<<"o">>)) =>
             /\ equals(GlobalValue(<<"o">>), GlobalValue(<<"t">>))
             /\ Probe.type = "InfixExpression" => result = Bool(TRUE)
        /\ GlobalValue(<<"o">>).t = "obj" =>
             /\ GlobalValue(<<"t">>).t = "map"
             /\ DOMAIN GlobalValue(<<"t">>).fields = DOMAIN GlobalValue(<<"o">>).fields
             /\ Probe.type = "PropertyAccess" => result = Nil

\* the text of TestEvalReturnStatements
NineReturnNine == <<"9", ";", "return", "2", "*", "5", ";", "9", ";">>

\* the place of the first return statement among stmts, 0 if there is none
FirstReturn(stmts) ==
    IF \E i \in DOMAIN stmts : stmts[i].type = "ReturnStatement"
    THEN CHOOSE i \in DOMAIN stmts :
             /\ stmts[i].type = "ReturnStatement"
             /\ \A j \in 1..(i - 1) : stmts[j].type # "ReturnStatement"
    ELSE 0

\* the statements of the program that were run: those run in the global
\* scope outside every call
TopLevelRun ==
    {e \in DOMAIN trace :
        trace[e].op = "Stmt" /\ trace[e].call = NoEnv /\ trace[e].env = Global}

\* the values of the return statements that were run outside every call
TopLevelReturned ==
    {trace[e].val : e \in {d \in DOMAIN trace :
                             trace[d].op = "Return" /\ trace[d].call = NoEnv}}

\* C20: a return statement at the top level of a program that parsed without
\* error stops evalProgram: the statements up to it are the only ones run, and the result is the
\* returned value itself, not a ReturnValue; 9; return 2 * 5; 9; gives 10.
C20_TopLevelReturnStops ==
    (pc = "done" /\ errors = << >> /\ FirstReturn(program.Statements) > 0) =>
        /\ Cardinality(TopLevelRun) = FirstReturn(program.Statements)
        /\ ~IsReturnValue(result)
        /\ TopLevelReturned = {result}
        /\ code = Text(NineReturnNine) => result = Float(10)

C20_Witness ==
    /\ pc = "done"
    /\ code = Text(NineReturnNine)
    /\ FirstReturn(program.Statements) = 2
    /\ Cardinality(TopLevelRun) = 2
    /\ result = Float(10)

NumericOperators ==
    {<<"+">>, <<"-">>, <<"*">>, <<"/">>, <<"<">>, <<">">>, <<"<", "=">>, <<">", "=">>}

\* the operand evaluates to neither a number nor a string
IsOther(node) == Variant(node) \notin {"number", "string"}

\* the number a number or string operand stands for; other stands for the
\* operands of every other variant
OperandNumber(node, other) ==
    CASE node.type = "NumberLiteral" -> node.Value
      [] node.type = "PrefixExpression" -> NumNeg(node.Right.Value)
      [] node.type = "StringLiteral" -> Sscanf(node.Value)
      [] OTHER -> other

\* the result of a numeric operator on two numbers
NumericResult(operator, a, b) ==
    CASE operator = <<"+">> -> NumAdd(a, b)
      [] operator = <<"-">> -> NumSub(a, b)
      [] operator = <<"*">> -> NumMul(a, b)
      [] operator = <<"/">> -> IF b.n = 0 THEN Float(0) ELSE NumDiv(a, b)
      [] operator = <<"<">> -> Bool(NumLess(a, b))
      [] operator = <<">">> -> Bool(NumLess(b, a))
      [] operator = <<"<", "=">> -> Bool(~NumLess(b, a))
      [] operator = <<">", "=">> -> Bool(~NumLess(a, b))

\* runCode has evaluated a numeric operator on an operand that is neither a
\* number nor a string (and, for +, on no string)
CoercesOther ==
    /\ pc \in {"done", "panic"}
    /\ Evaluated1.Operator \in NumericOperators
    /\ IsOther(Evaluated1.Left) \/ IsOther(Evaluated1.Right)
    /\ Evaluated1.Operator = <<"+">>
       => (Variant(Evaluated1.Left) # "string" /\ Variant(Evaluated1.Right) # "string")

\* C21: for the numeric operators every operand that is neither a number nor
\* a string (absent, boolean, object, array, function) is treated as the
\* number 0: the result is that of the operator with 0 in its place.
C21_OtherOperandIsZero ==
    CoercesOther
    => /\ pc = "done"
       /\ result = NumericResult(Evaluated1.Operator,
                              OperandNumber(Evaluated1.Left, Float(0)),
                              OperandNumber(Evaluated1.Right, Float(0)))

\* the number toFloat's tests give an operand that is no number and no string
OtherNumber(node) ==
    IF node.type = "BooleanLiteral" /\ node.Value THEN Float(1) ELSE Float(0)

\* C21 as amended: the boolean true is treated as the number 1; the absent
\* value, false, objects, arrays and functions are treated as the number 0.
C21_TrueIsOneOthersZero ==
    CoercesOther
    => /\ pc = "done"
       /\ result = NumericResult(Evaluated1.Operator,
                              OperandNumber(Evaluated1.Left, OtherNumber(Evaluated1.Left)),
                              OperandNumber(Evaluated1.Right, OtherNumber(Evaluated1.Right)))

\* true + 5; has been evaluated to 6, and {} * 5; to 0
C21_Witness ==
    /\ pc = "done"
    /\ Evaluated1.Right.type = "NumberLiteral"
    /\ Evaluated1.Right.Value = Float(5)
    /\ \/ /\ Evaluated1.Operator = <<"+">>
          /\ Evaluated1.Left.type = "BooleanLiteral"
          /\ Evaluated1.Left.Value
          /\ result = Float(6)
       \/ /\ Evaluated1.Operator = <<"*">>
          /\ Evaluated1.Left.type = "ObjectLiteral"
          /\ result = Float(0)

\* the number of bytes b of a text
RECURSIVE Occurrences(_, _)
Occurrences(text, b) ==
    IF text = << >> THEN 0
    ELSE (IF text[1] = b THEN 1 ELSE 0) + Occurrences(Tail(text), b)

\* the text opens more braces than it closes (no text of the parser's inputs
\* has a brace in a string or in a comment): some block, function body or
\* object literal is not closed before the end of the input
MissesClosingBrace(text) == Occurrences(text, "{") > Occurrences(text, "}")

\* C22: for every input in which a block, function body or object literal is
\* not closed by } before the end of the input, ParseProgram leaves at least
\* one message in the error list.
C22_MissingBraceIsReported ==
    (pc = "parsed" /\ MissesClosingBrace(code)) => errors # << >>

\* the tree holds an assignment node
RECURSIVE HasAssign(_)
HasAssign(node) ==
    CASE node.type = "AssignExpression" -> TRUE
      [] node.type \in {"Program", "BlockStatement"} ->
           \E i \in DOMAIN node.Statements : HasAssign(node.Statements[i])
      [] node.type \in {"VarStatement", "ReturnStatement"} -> HasAssign(node.Value)
      [] node.type = "ExpressionStatement" -> HasAssign(node.Expression)
      [] node.type = "IfStatement" ->
           \/ HasAssign(node.Condition)
           \/ HasAssign(node.Consequence)
           \/ HasAssign(node.Alternative)
      [] node.type = "WhileStatement" -> HasAssign(node.Condition) \/ HasAssign(node.Body)
      [] node.type = "InfixExpression" -> HasAssign(node.Left) \/ HasAssign(node.Right)
      [] node.type = "PrefixExpression" -> HasAssign(node.Right)
      [] node.type = "CallExpression" ->
           \/ HasAssign(node.Function)
           \/ \E i \in DOMAIN node.Arguments : HasAssign(node.Arguments[i])
      [] node.type = "FunctionLiteral" -> HasAssign(node.Body)
      [] node.type = "ObjectLiteral" ->
           \E k \in DOMAIN node.Pairs : HasAssign(node.Pairs[k])
      [] node.type = "PropertyAccess" -> HasAssign(node.Object)
      [] OTHER -> FALSE

Reported(message) == \E i \in DOMAIN errors : errors[i] = message

\* C23: an assignment whose left-hand side is a property access, an infix or
\* prefix expression, a literal or a call is a parse error: the error list
\* holds "invalid assignment target" and the program has no assignment node.
C23_AssignmentNeedsIdentifier ==
    (pc = "parsed" /\ code \in {Text(words) : words \in AssignTexts})
    => (Reported(<<"invalid assignment target">>) /\ ~HasAssign(program))

\* a.b = 1; has been parsed: the message is there and the statement list
\* holds no assignment
C23_Witness ==
    /\ pc = "parsed"
    /\ code = Text(<<"a", ".", "b", "=", "1", ";">>)
    /\ Reported(<<"invalid assignment target">>)
    /\ ~HasAssign(program)
    /\ program.Statements # << >>

\* the tokens the scanner has still to give before its EOF token
RECURSIVE TokensLeft(_)
TokensLeft(l) ==
    With(NextToken(l), LAMBDA r :
      IF r.tok.Type = EOF THEN 0 ELSE 1 + TokensLeft(r.l))

\* the tokens ahead of the parser: its current token, the token it looks
\* ahead at and those the scanner has left, up to the EOF token
Unread(p) ==
    IF currentTokenIs(p, EOF) THEN 0
    ELSE IF peekTokenIs(p, EOF) THEN 1
    ELSE 2 + TokensLeft(p.l)

\* C24: ParseProgram terminates on every finite input: the scanner comes to
\* its EOF token after finitely many calls, every iteration of the statement
\* loop (with the block and object-literal loops run inside it) returns with
\* fewer tokens ahead than it began with, the iterations are never more than
\* the bytes of the text, and the loop is left at the EOF token only.
C24_ParsingEnds ==
    [][/\ (pc = "new" /\ pc' = "parsing") => Unread(parser') <= Len(code')
       /\ (pc = "parsing" /\ pc' = "parsing")
          => /\ Unread(parser') < Unread(parser)
             /\ count' + Unread(parser') <= Len(code)
       /\ pc' = "parsed" => (currentTokenIs(parser', EOF) /\ Unread(parser') = 0)
    ]_vars

\* a = {a: b a: 1}; has been parsed to its end: the object loop went round
\* without taking a token, gave up at the second a, and the statement loop
\* took the rest of the text in further iterations
C24_Witness ==
    /\ pc = "parsed"
    /\ code = Text(<<"a", "=", "{", "a", ":", "b", "a", ":", "1", "}", ";">>)
    /\ currentTokenIs(parser, EOF)
    /\ count > 1
    /\ errors # << >>

\* the operators of the words a op b op ... are all + and -, or all * and /
SameLevel(w) ==
    \/ \A i \in DOMAIN w : i % 2 = 0 => w[i] \in {"+", "-"}
    \/ \A i \in DOMAIN w : i % 2 = 0 => w[i] \in {"*", "/"}

\* ((a op b) op c) op ...: the value of the first k operators of the words
RECURSIVE LeftFold(_, _)
LeftFold(w, k) ==
    IF k = 0 THEN Float(DigitValue[w[1]])
    ELSE NumericResult(<<w[2 * k]>>, LeftFold(w, k - 1), Float(DigitValue[w[2 * k + 1]]))

\* the node is the tree ((a op b) op c) op ... of the first k operators
RECURSIVE LeftNested(_, _, _)
LeftNested(node, w, k) ==
    IF k = 0
    THEN node.type = "NumberLiteral" /\ node.Value = Float(DigitValue[w[1]])
    ELSE /\ node.type = "InfixExpression"
         /\ node.Operator = <<w[2 * k]>>
         /\ node.Right.type = "NumberLiteral"
         /\ node.Right.Value = Float(DigitValue[w[2 * k + 1]])
         /\ LeftNested(node.Left, w, k - 1)

\* C25: binary operators of equal precedence associate to the left: a chain
\* of + and -, or of * and /, is parsed as ((a op b) op c) ... and evaluates
\* to the value folded from the left; 10 - 2 - 3 is 5.
C25_LeftAssociative ==
    /\ (pc = "done" /\ IsArithmetic(code) /\ SameLevel(Words(code)))
       => /\ LeftNested(Evaluated1, Words(code), Len(Words(code)) \div 2)
          /\ result = LeftFold(Words(code), Len(Words(code)) \div 2)
    /\ (pc = "done" /\ code = Text(<<"10", "-", "2", "-", "3", ";">>))
       => /\ Evaluated1.Left.type = "InfixExpression"
          /\ Evaluated1.Right.type = "NumberLiteral"
          /\ result = Float(5)

\* 10 - 2 - 3; has been evaluated to 5, and 4 / 2 / 2 to 1
C25_Witness ==
    /\ pc = "done"
    /\ \/ code = Text(<<"10", "-", "2", "-", "3", ";">>) /\ result = Float(5)
       \/ code = Text(<<"4", "/", "2", "/", "2">>) /\ result = Float(1)

IsCallback(ev) == ev.op = "Callback"

\* the calls of the callback the last statement made, in the order made
Callbacks(tr) == SelectSeq(tr, IsCallback)

\* what the callback of statement i returns for element x at index k of an
\* array of n elements: f returns x * 10 + i + r.length * 100, g ends with
\* the value of x + 1
CallbackValue(i, x, k, n) ==
    IF i = MapF
    THEN NumAdd(NumAdd(NumMul(x, Float(10)), Float(k)), Float(n * 100))
    ELSE NumAdd(x, Float(1))

CallbackName(i) == IF i = MapF THEN <<"f">> ELSE <<"g">>

RECURSIVE PushedByH(_)
PushedByH(elems) ==
    IF elems = << >> THEN << >>
    ELSE (IF NumLess(elems[1], Float(2)) THEN <<NumAdd(elems[1], Float(5))>> ELSE << >>)
         \o PushedByH(Tail(elems))

\* h returns x < 6
KeptByH(x) == NumLess(x, Float(6))

Outcome(ord) ==
    With(Eval(program, Global, StartState(heap, ord)), LAMBDA r :
      Collect(r.st.heap, r.val))

\* C27: evaluation is deterministic: two evaluations of the same text, each
\* from a fresh global environment and without native calls, give the same
\* result and the same final bindings, also for an object literal whose
\* property values have side effects such as {a: x = 1, b: x = 2}.
C27_EvaluationIsDeterministic ==
    (pc = "parsed" /\ ~hasErrors(errors))
    => \A ord1, ord2 \in RangeOrders : Outcome(ord1) = Outcome(ord2)

\* k and j are counters: closures made by two calls of m
Counters(h) == IsClosure(h, <<"k">>) /\ IsClosure(h, <<"j">>)

CounterOf(h, name) == Captured(h, h[Global].store[name])

\* C28: every call makes a fresh environment, so the closures returned by
\* two calls of the same function capture different scopes: after
\* var k = m(); var j = m(); a call of k leaves the count of j as it was and
\* a call of j the count of k, and each returns its own count plus one.
C28_CountersAreDisjoint ==
    [][Evaluated =>
        /\ Counters(heap')
           => heap'[Global].store[<<"k">>].Env # heap'[Global].store[<<"j">>].Env
        /\ (Counters(heap) /\ stmt' \in {Index(CallK), Index(CallKThrice)})
           => /\ CounterOf(heap', <<"j">>) = CounterOf(heap, <<"j">>)
              /\ CounterOf(heap', <<"k">>) # CounterOf(heap, <<"k">>)
        /\ (Counters(heap) /\ stmt' = Index(CallJ))
           => /\ CounterOf(heap', <<"k">>) = CounterOf(heap, <<"k">>)
              /\ result' = NumAdd(CounterOf(heap, <<"j">>), Float(1))
              /\ CounterOf(heap', <<"j">>) = result'
        /\ (IsClosure(heap, <<"k">>) /\ stmt' = Index(DeclareJ))
           => /\ CounterOf(heap', <<"j">>) = Float(0)
              /\ CounterOf(heap', <<"k">>) = CounterOf(heap, <<"k">>)
    ]_vars

\* after three calls of k the first call of j has returned 1
C28_Witness ==
    /\ stmt = Index(CallJ)
    /\ Counters(heap)
    /\ result = Float(1)
    /\ CounterOf(heap, <<"k">>) = Float(3)
    /\ CounterOf(heap, <<"j">>) = Float(1)

\* the comparison a program of SpecSelf ends with, and the value of v
Compared == program.Statements[Len(program.Statements)].Expression

ValueOfV == heap[Global].store[<<"v">>]

\* the variants equals compares by content
ReflexiveVariants == {"num", "str", "bool", "nil"}

\* C30: equality is not reflexive on references: when v is an object, an
\* array or a function, v == v is false and v != v is true, also when both
\* operands are read from the same variable or from a variable and its copy;
\* it is reflexive only for numbers, strings, booleans and the absent value.
C30_EqualityReflexiveOnlyOnPrimitives ==
    (pc \in {"done", "panic"} /\ Compared.Left = Identifier(<<"v">>))
    => /\ pc = "done"
       /\ Compared.Right = Identifier(<<"w">>)
          => heap[Global].store[<<"w">>] = ValueOfV
       /\ Compared.Operator = <<"=", "=">>
          => result = Bool(ValueOfV.t \in ReflexiveVariants)
       /\ Compared.Operator = <<"!", "=">>
          => result = Bool(ValueOfV.t \notin ReflexiveVariants)

\* a function has been compared with itself through a variable and its copy,
\* and differs
C30_Witness ==
    /\ pc = "done"
    /\ Compared.Left = Identifier(<<"v">>)
    /\ Compared.Right = Identifier(<<"w">>)
    /\ Compared.Operator = <<"!", "=">>
    /\ ValueOfV.t = "fn"
    /\ heap[Global].store[<<"w">>] = ValueOfV
    /\ result = Bool(TRUE)

====
